---- MODULE Spec2Model ----
(***************************************************************************)
(* Model of CR-bot's message handler (MsgHandler), its sequential job      *)
(* queue (crQueue / crIsRunning / currentCr, drained by runCrLoop) and of  *)
(* the fetch-and-filter pipeline (fetchAndDoCR, pipeNjdsonToFile), and of  *)
(* the command parser (parseCmd).                                          *)
(*                                                                         *)
(* Node runs the handler and the drain loops on one thread: code between   *)
(* two awaits is atomic, and an await is a point where the other           *)
(* coroutines may run.  Zulip.eventLoop awaits handle(msg) for each event, *)
(* so at most one message is being handled at a time; runCrLoop is called  *)
(* without await, so its iterations interleave with the handler.  When     *)
(* eventLoop ends, main calls it again with the same MsgHandler; the drain *)
(* loops go on in between.                                                 *)
(***************************************************************************)
EXTENDS Integers, Sequences, FiniteSets

\* ---------------------------------------------------------------- bounds
MaxMsgs == 4        \* chat messages received in one run
MaxIdx == 2         \* largest index given to "abort <index>"
MaxRecords == 3     \* records in one response body
MaxN == 2           \* largest max given to pipeNjdsonToFile
MaxArgs == 3        \* tokens after the user name in a parsed message

\* ------------------------------------------------------------- constants
Ok == 200               \* a status with res.ok
RateLimited == 429      \* the status fetchAndDoCR compares res.status with
ServerError == 500      \* a status that is neither ok nor 429

VARIABLES
  crQueue,      \* MsgHandler.crQueue: pending jobs (message ids), head first
  crIsRunning,  \* MsgHandler.crIsRunning
  currentCr,    \* MsgHandler.currentCr: [msg, abortCtrl], NoCr for null
  aborted,      \* the AbortControllers of runs whose abort() was called
  loops,        \* the active runCrLoop invocations: [cr, abortCtrl, pc]
  nextCtrl,     \* the next AbortController runCrLoop creates
  h,            \* the message being handled (handle and what it awaits)
  nextMsg,      \* the id of the next chat message
  enqLog,       \* history: jobs in the order they were pushed
  startLog,     \* history: jobs in the order a drain loop dequeued them
  outcome,      \* history: how each job's doCR ended ("none" while not ended)
  notified,     \* history: jobs abort reacted to with "prohibited" while pending
  abortSeen,    \* history: an abort command has been handled
  ticking,      \* the messages that carry the time_ticking reaction
  body,         \* pipeNjdsonToFile: the part of res.body not yet delivered
  buf,          \* pipeNjdsonToFile: buf
  count,        \* pipeNjdsonToFile: count
  max,          \* pipeNjdsonToFile: max (NoMax for undefined)
  written,      \* pipeNjdsonToFile: the strings written to fileStream, in order
  pipePc,       \* pipeNjdsonToFile: "off", "reading", "done", "stopped", "threw"
  records,      \* history: the records the service sent, in order
  content,      \* parseCmd: msg.content, a sequence of characters
  formatted,    \* the ValidCommand formatCmd was given, NotParsed before
  parsed,       \* parseCmd: the Command returned or the error thrown
  filter        \* the callback given to pipeNjdsonToFile: [o, cmd, kept]

schedVars == <<crQueue, crIsRunning, currentCr, aborted, loops, nextCtrl, h, nextMsg,
               enqLog, startLog, outcome, notified, abortSeen, ticking>>

pipeVars == <<body, buf, count, max, written, pipePc, records>>

parseVars == <<content, parsed, formatted>>

vars == <<schedVars, pipeVars, parseVars, filter>>

Msgs == 1..MaxMsgs
Statuses == {Ok, RateLimited, ServerError}
Range(s) == {s[i] : i \in 1..Len(s)}

\* null for currentCr
NoCr == [msg |-> 0, abortCtrl |-> 0]

\* The commands parseCmd hands to the handlers, as far as the queue sees them.
NoCmd == [type |-> "none", index |-> 0]
StatusCmd == [type |-> "status", index |-> 0]
AbortAllCmd == [type |-> "abortAll", index |-> 0]
AbortIdxCmd(k) == [type |-> "abort", index |-> k]
CrCmd == [type |-> "cr", index |-> 0]
InvalidCmd == [type |-> "invalid", index |-> 0]
HelpCmd == [type |-> "help", index |-> 0]

\* undefined for max
NoMax == -1

\* No service answers planned: the message is not an analysis command.
NoPlan == <<>>

HIdle == [pc |-> "idle", msg |-> 0, cmd |-> NoCmd, plan |-> NoPlan, retried |-> FALSE,
          reqs |-> 0, notices |-> 0, res |-> 0, err |-> FALSE, reply |-> "none",
          ended |-> "none"]

\* The handler as its constructor leaves it (part_000:51-53).
SchedInit ==
  /\ crQueue = <<>>
  /\ crIsRunning = FALSE
  /\ currentCr = NoCr
  /\ aborted = {}
  /\ loops = {}
  /\ nextCtrl = 1
  /\ h = HIdle
  /\ nextMsg = 1
  /\ enqLog = <<>>
  /\ startLog = <<>>
  /\ outcome = [m \in Msgs |-> "none"]
  /\ notified = {}
  /\ abortSeen = FALSE
  /\ ticking = {}

\* No response is being piped.
PipeOff ==
  /\ body = <<>>
  /\ buf = <<>>
  /\ count = 0
  /\ max = NoMax
  /\ written = <<>>
  /\ pipePc = "off"
  /\ records = <<>>

\* parseCmd has not been called.
NotParsed == [type |-> "none"]

\* No message is being parsed.
ParseOff ==
  /\ content = <<>>
  /\ parsed = NotParsed
  /\ formatted = NotParsed

\* No record is being filtered.
NoFilter == [o |-> <<>>, cmd |-> <<>>, kept |-> "off"]

Init == SchedInit /\ PipeOff /\ ParseOff /\ filter = NoFilter

\* ------------------------------------------------------- the drain loop

\* Mutant of Shift: Array.prototype.pop, which takes the last job.
ShiftAsPop(q) == [cr |-> q[Len(q)], rest |-> SubSeq(q, 1, Len(q) - 1)]

\* Array.prototype.shift: the job taken and the array left.
Shift(q) == [cr |-> Head(q), rest |-> Tail(q)]

\* Mutant of WhileLoop: one AbortController created before the while loop
\* and given to every job.
WhileLoopOneCtrl(q, ls, running) ==
  IF Len(q) > 0
  THEN /\ crQueue' = Shift(q).rest
       /\ currentCr' = [msg |-> Shift(q).cr, abortCtrl |-> 1]
       /\ loops' = ls \cup {[cr |-> Shift(q).cr, abortCtrl |-> 1, pc |-> "exec"]}
       /\ nextCtrl' = nextCtrl + 1
       /\ startLog' = Append(startLog, Shift(q).cr)
       /\ crIsRunning' = running
  ELSE /\ crQueue' = q
       /\ currentCr' = NoCr
       /\ crIsRunning' = FALSE
       /\ loops' = ls
       /\ UNCHANGED <<nextCtrl, startLog>>

\* runCrLoop's while loop, from its test to the next await (part_000:129-135),
\* or to the end of runCrLoop when the test fails (part_000:145-146).  q is
\* crQueue when the test runs, ls the other active loops, running the value
\* crIsRunning keeps if the loop goes on.
WhileLoop(q, ls, running) ==
  IF Len(q) > 0
  THEN /\ crQueue' = Shift(q).rest
       /\ currentCr' = [msg |-> Shift(q).cr, abortCtrl |-> nextCtrl]
       /\ loops' = ls \cup {[cr |-> Shift(q).cr, abortCtrl |-> nextCtrl, pc |-> "exec"]}
       /\ nextCtrl' = nextCtrl + 1
       /\ startLog' = Append(startLog, Shift(q).cr)
       /\ crIsRunning' = running
  ELSE /\ crQueue' = q
       /\ currentCr' = NoCr
       /\ crIsRunning' = FALSE
       /\ loops' = ls
       /\ UNCHANGED <<nextCtrl, startLog>>

\* runCrLoop as fetchAndDoCR calls it (without await): up to its first await.
RunCrLoop(q) ==
  IF crIsRunning
  THEN /\ crQueue' = q
       /\ UNCHANGED <<crIsRunning, currentCr, loops, nextCtrl, startLog>>
  ELSE WhileLoop(q, loops, TRUE)

\* How doCR can end when the run's signal was not aborted: the report is
\* posted (part_000:181-186), the report has no section about the user
\* (187-190), exec timed out and the child was killed (165-169), exec failed
\* otherwise (170-174), or readFile or a reply threw, so that doCR itself
\* throws (179, 182; part_001:356-360).
ExecResults == {"completed", "noOutput", "killed", "failed", "reportThrew"}

\* The outcomes in which the run failed.
RunFailures == {"noOutput", "killed", "failed", "reportThrew"}

\* Mutant of DoCREnds: no AbortError branch, so that an aborted exec is
\* reported like any other end of exec.
DoCREndsNoAbortBranch(l, r) ==
  /\ l \in loops
  /\ l.pc = "exec"
  /\ outcome' = [outcome EXCEPT ![l.cr] = r]
  /\ loops' = (loops \ {l}) \cup {[l EXCEPT !.pc = "finally"]}
  /\ UNCHANGED <<crQueue, crIsRunning, currentCr, aborted, nextCtrl, h, nextMsg,
                 enqLog, startLog, notified, abortSeen, ticking>>
  /\ UNCHANGED pipeVars
  /\ UNCHANGED parseVars
  /\ UNCHANGED filter

\* doCR from the end of exec to its return: exec rejects with AbortError when
\* the run's signal was aborted (part_000:160-177), else it ends in one of
\* ExecResults (part_000:179-191).
DoCREnds(l, r) ==
  /\ l \in loops
  /\ l.pc = "exec"
  /\ outcome' = [outcome EXCEPT ![l.cr] = IF l.abortCtrl \in aborted THEN "aborted" ELSE r]
  /\ loops' = (loops \ {l}) \cup {[l EXCEPT !.pc = "finally"]}
  /\ UNCHANGED <<crQueue, crIsRunning, currentCr, aborted, nextCtrl, h, nextMsg,
                 enqLog, startLog, notified, abortSeen, ticking>>
  /\ UNCHANGED pipeVars
  /\ UNCHANGED parseVars
  /\ UNCHANGED filter

\* Mutant of LoopNext: no catch around doCR, so that an exception of doCR
\* ends runCrLoop where it is.
LoopNextNoCatch(l) ==
  /\ l \in loops
  /\ l.pc = "finally"
  /\ IF outcome[l.cr] = "reportThrew"
     THEN /\ loops' = loops \ {l}
          /\ UNCHANGED <<crQueue, crIsRunning, currentCr, nextCtrl, startLog>>
     ELSE WhileLoop(crQueue, loops \ {l}, crIsRunning)
  /\ ticking' = ticking \ {l.cr}
  /\ UNCHANGED <<aborted, h, nextMsg, enqLog, outcome, notified, abortSeen>>
  /\ UNCHANGED pipeVars
  /\ UNCHANGED parseVars
  /\ UNCHANGED filter

\* runCrLoop after doCR returned or threw: the finally's unreact, the catch,
\* then the while test again (part_000:136-146).
LoopNext(l) ==
  /\ l \in loops
  /\ l.pc = "finally"
  /\ WhileLoop(crQueue, loops \ {l}, crIsRunning)
  /\ ticking' = ticking \ {l.cr}
  /\ UNCHANGED <<aborted, h, nextMsg, enqLog, outcome, notified, abortSeen>>
  /\ UNCHANGED pipeVars
  /\ UNCHANGED parseVars
  /\ UNCHANGED filter

\* ------------------------------------------- handleInvalid, handleHelp

\* A handler has returned to handle, and handle to the event loop: the locals
\* of the call are gone, what the requester was told stays.
Returned(r) == [HIdle EXCEPT !.msg = r.msg, !.cmd = r.cmd, !.reply = r.reply]

\* Mutant of Caught: handle without its try/catch; the exception reaches the
\* catch of the event loop, which logs it and retrieves the next events.
NotCaught(r) == Returned(r)

\* handle's catch (part_000:323-327): the exception of a handler ends there,
\* the message gets the cross_mark reaction and handle returns normally.
Caught(r) == [Returned(r) EXCEPT !.reply = "cross_mark"]

Receive(cmd, plan) ==
  [HIdle EXCEPT !.msg = nextMsg, !.cmd = cmd, !.plan = plan]

\* Mutant of HandleInvalid: the message is pushed as a job after the reply.
HandleInvalidPushes ==
  /\ h.pc = "idle"
  /\ nextMsg <= MaxMsgs
  /\ h' = [Receive(InvalidCmd, NoPlan) EXCEPT !.reply = "invalid"]
  /\ nextMsg' = nextMsg + 1
  /\ crQueue' = Append(crQueue, nextMsg)
  /\ UNCHANGED <<crIsRunning, currentCr, aborted, loops, nextCtrl,
                 enqLog, startLog, outcome, notified, abortSeen, ticking>>
  /\ UNCHANGED pipeVars
  /\ UNCHANGED parseVars
  /\ UNCHANGED filter

\* handle for a message parseCmd rejects: handleInvalid replies with the
\* reason (part_000:315, 60-62).
HandleInvalid ==
  /\ h.pc = "idle"
  /\ nextMsg <= MaxMsgs
  /\ h' = [Receive(InvalidCmd, NoPlan) EXCEPT !.reply = "invalid"]
  /\ nextMsg' = nextMsg + 1
  /\ UNCHANGED <<crQueue, crIsRunning, currentCr, aborted, loops, nextCtrl,
                 enqLog, startLog, outcome, notified, abortSeen, ticking>>
  /\ UNCHANGED pipeVars
  /\ UNCHANGED parseVars
  /\ UNCHANGED filter

\* handle for "help": handleHelp replies with the usage text (part_000:316,
\* 64-87).
HandleHelp ==
  /\ h.pc = "idle"
  /\ nextMsg <= MaxMsgs
  /\ h' = [Receive(HelpCmd, NoPlan) EXCEPT !.reply = "help"]
  /\ nextMsg' = nextMsg + 1
  /\ UNCHANGED <<crQueue, crIsRunning, currentCr, aborted, loops, nextCtrl,
                 enqLog, startLog, outcome, notified, abortSeen, ticking>>
  /\ UNCHANGED pipeVars
  /\ UNCHANGED parseVars
  /\ UNCHANGED filter

\* ---------------------------------------------------------- handleStatus

\* The indices of handleStatus's reply and the job shown at each: [0] for
\* currentCr when not null, [+i + 1] for crQueue[i] (part_000:91-95).
StatusShows(cur, q) ==
  [k \in (IF cur # NoCr THEN {0} ELSE {}) \cup (1..Len(q)) |->
     IF k = 0 THEN cur.msg ELSE q[k]]

\* handleStatus (part_000:89-98): replies, changes nothing.
HandleStatus ==
  /\ h.pc = "idle"
  /\ nextMsg <= MaxMsgs
  /\ h' = [Receive(StatusCmd, NoPlan) EXCEPT !.reply = "status"]
  /\ nextMsg' = nextMsg + 1
  /\ UNCHANGED <<crQueue, crIsRunning, currentCr, aborted, loops, nextCtrl,
                 enqLog, startLog, outcome, notified, abortSeen, ticking>>
  /\ UNCHANGED pipeVars
  /\ UNCHANGED parseVars
  /\ UNCHANGED filter

\* ----------------------------------------------------------- handleAbort

\* Mutant of Splice: q.splice(start, 1), which removes one element.
SpliceOne(q, start) == SubSeq(q, 1, start) \o SubSeq(q, start + 2, Len(q))

\* The array left by q.splice(start), start >= 0: everything from start
\* (0-based) to the end is removed.
Splice(q, start) == SubSeq(q, 1, start)

\* crQueue[indexOrAll] is undefined (0-based index past the end).
IndexedCrUndefined(q, k) == k + 1 > Len(q)

\* Mutant of AbortThrows: cr?.msg and this.currentCr?.abortCtrl.abort(), which
\* do nothing on undefined or null.
AbortThrowsNever(q, cur, cmd) == FALSE

\* handleAbort throws a TypeError: cr.msg of an undefined cr (part_000:108-109)
\* or abortCtrl of a null currentCr (part_000:114).
AbortThrows(q, cur, cmd) ==
  IF cmd.type = "abort" /\ cmd.index > 0
  THEN IndexedCrUndefined(q, cmd.index)
  ELSE cur = NoCr

\* Mutant of QueueAfterAbort: the index branch taken for indexOrAll >= 0, so
\* that abort 0 runs crQueue.splice(-1), which removes the last pending job.
QueueAfterAbortFromZero(q, cmd) ==
  IF cmd.type = "abortAll" THEN <<>>
  ELSE IF IndexedCrUndefined(q, cmd.index) THEN q
       ELSE Splice(q, IF cmd.index = 0 THEN Len(q) - 1 ELSE cmd.index - 1)

\* crQueue after handleAbort's first part (part_000:101-112).
QueueAfterAbort(q, cmd) ==
  IF cmd.type = "abortAll" THEN <<>>
  ELSE IF cmd.index > 0
       THEN IF IndexedCrUndefined(q, cmd.index) THEN q ELSE Splice(q, cmd.index - 1)
       ELSE q

\* The pending jobs handleAbort reacts to with "prohibited" (part_000:102-110).
NotifiedByAbort(q, cmd) ==
  IF cmd.type = "abortAll" THEN Range(q)
  ELSE IF cmd.index > 0
       THEN IF IndexedCrUndefined(q, cmd.index) THEN {} ELSE {q[cmd.index + 1]}
       ELSE {}

\* indexOrAll === 0 || indexOrAll === 'all' (part_000:113)
TargetsCurrent(cmd) == cmd.type = "abortAll" \/ cmd.index = 0

\* handleAbort up to its await sleep(5000), or to its end (part_000:100-115);
\* a TypeError is caught by handle, which reacts with cross_mark
\* (part_000:323-327).
HandleAbort(cmd) ==
  /\ h.pc = "idle"
  /\ nextMsg <= MaxMsgs
  /\ crQueue' = QueueAfterAbort(crQueue, cmd)
  /\ notified' = notified \cup NotifiedByAbort(crQueue, cmd)
  /\ abortSeen' = TRUE
  /\ nextMsg' = nextMsg + 1
  /\ IF AbortThrows(crQueue, currentCr, cmd)
     THEN /\ h' = Caught(Receive(cmd, NoPlan))
          /\ UNCHANGED aborted
     ELSE IF TargetsCurrent(cmd)
          THEN /\ aborted' = aborted \cup {currentCr.abortCtrl}
               /\ h' = [Receive(cmd, NoPlan) EXCEPT !.pc = "abortSleep"]
          ELSE /\ h' = Receive(cmd, NoPlan)
               /\ UNCHANGED aborted
  /\ ticking' = ticking \ NotifiedByAbort(crQueue, cmd)
  /\ UNCHANGED <<crIsRunning, currentCr, loops, nextCtrl, enqLog, startLog, outcome>>
  /\ UNCHANGED pipeVars
  /\ UNCHANGED parseVars
  /\ UNCHANGED filter

HandleAbortIndex == \E k \in 0..MaxIdx : HandleAbort(AbortIdxCmd(k))

HandleAbortAll == HandleAbort(AbortAllCmd)

\* handleAbort after the 5 seconds (part_000:116-121).
HandleAbortAfterSleep ==
  /\ h.pc = "abortSleep"
  /\ IF crIsRunning
     THEN /\ crIsRunning' = FALSE
          /\ h' = [h EXCEPT !.pc = "idle", !.reply = "didntAbort"]
     ELSE /\ h' = [h EXCEPT !.pc = "idle", !.reply = "check"]
          /\ UNCHANGED crIsRunning
  /\ UNCHANGED <<crQueue, currentCr, aborted, loops, nextCtrl, nextMsg,
                 enqLog, startLog, outcome, notified, abortSeen, ticking>>
  /\ UNCHANGED pipeVars
  /\ UNCHANGED parseVars
  /\ UNCHANGED filter

\* ---------------------------------------------------------- fetchAndDoCR

\* What the service answers to the 1st and to the 2nd request for a message.
Plans == {<<a, b>> : a \in Statuses, b \in Statuses}

\* res.ok
ResOk(status) == status = Ok

\* The for loop's test, !retried (part_000:205).
LoopTest(retried) == ~retried

\* Mutant of AfterResponse: the error branch without its return.
AfterResponseNoReturn(status, retried) ==
  IF LoopTest(TRUE) THEN "fetch" ELSE "respond"

\* Where fetchAndDoCR goes after the response to a request: "fetch" for one
\* more iteration of the for loop, "respond" when the loop is left, "idle"
\* when it returns (part_000:205-225).  The loop's increment sets retried to
\* true after every iteration that does not return.
AfterResponse(status, retried) ==
  IF ResOk(status) \/ (status = RateLimited /\ ~retried)
  THEN IF LoopTest(TRUE) THEN "fetch" ELSE "respond"
  ELSE "idle"

\* fetchAndDoCR up to its first fetch (part_000:201-213); handleIds,
\* handelRecent and handleTournament all come here.
FetchBegin ==
  /\ h.pc = "idle"
  /\ nextMsg <= MaxMsgs
  /\ \E plan \in Plans : h' = [Receive(CrCmd, plan) EXCEPT !.pc = "fetch", !.reqs = 1]
  /\ nextMsg' = nextMsg + 1
  /\ ticking' = ticking \cup {nextMsg}
  /\ UNCHANGED <<crQueue, crIsRunning, currentCr, aborted, loops, nextCtrl,
                 enqLog, startLog, outcome, notified, abortSeen>>
  /\ UNCHANGED pipeVars
  /\ UNCHANGED parseVars
  /\ UNCHANGED filter

\* The response to the request in flight arrives (part_000:213-224).
FetchResponse ==
  /\ h.pc = "fetch"
  /\ LET status == h.plan[h.reqs]
         pc == AfterResponse(status, h.retried)
     IN IF pc = "idle"
        THEN /\ h' = [Returned(h) EXCEPT !.err = TRUE, !.reply = "cross_mark"]
             /\ ticking' = ticking \ {h.msg}
        ELSE /\ h' = [h EXCEPT !.pc = pc,
                               !.res = status,
                               !.notices = IF ~ResOk(status) THEN @ + 1 ELSE @,
                               !.retried = TRUE,
                               !.reqs = IF pc = "fetch" THEN @ + 1 ELSE @]
             /\ UNCHANGED ticking
  /\ UNCHANGED <<crQueue, crIsRunning, currentCr, aborted, loops, nextCtrl, nextMsg,
                 enqLog, startLog, outcome, notified, abortSeen>>
  /\ UNCHANGED pipeVars
  /\ UNCHANGED parseVars
  /\ UNCHANGED filter

\* How handleResponse (pipeToFile or pipeNjdsonToFile) can end: it returns
\* (pipeNjdsonToFile does so after its own abortCtrl.abort(), part_001:221-224),
\* it throws an AbortError, or it throws another error.
ResponseEnds == {"done", "abortError", "error"}

\* Mutant of HandleResponse: "await this.runCrLoop()", so that the handler
\* returns only when the drain loop has ended.
HandleResponseAwaitsLoop ==
  /\ h.pc = "respond"
  /\ \E e \in ResponseEnds :
       IF e = "error"
       THEN /\ h' = [Caught(h) EXCEPT !.ended = e]
            /\ ticking' = ticking \ {h.msg}
            /\ UNCHANGED <<crQueue, crIsRunning, currentCr, loops, nextCtrl,
                           enqLog, startLog>>
       ELSE /\ h' = [Returned(h) EXCEPT !.pc = "awaitLoop", !.ended = e]
            /\ enqLog' = Append(enqLog, h.msg)
            /\ RunCrLoop(Append(crQueue, h.msg))
            /\ UNCHANGED ticking
  /\ UNCHANGED <<aborted, nextMsg, outcome, notified, abortSeen>>
  /\ UNCHANGED pipeVars
  /\ UNCHANGED parseVars
  /\ UNCHANGED filter

\* Mutant of HandleResponse: the catch around handleResponse rethrows every
\* error, an AbortError too.
HandleResponseRethrowsAbort ==
  /\ h.pc = "respond"
  /\ \E e \in ResponseEnds :
       IF e # "done"
       THEN /\ h' = [Caught(h) EXCEPT !.ended = e]
            /\ ticking' = ticking \ {h.msg}
            /\ UNCHANGED <<crQueue, crIsRunning, currentCr, loops, nextCtrl,
                           enqLog, startLog>>
       ELSE /\ h' = [Returned(h) EXCEPT !.ended = e]
            /\ enqLog' = Append(enqLog, h.msg)
            /\ RunCrLoop(Append(crQueue, h.msg))
            /\ UNCHANGED ticking
  /\ UNCHANGED <<aborted, nextMsg, outcome, notified, abortSeen>>
  /\ UNCHANGED pipeVars
  /\ UNCHANGED parseVars
  /\ UNCHANGED filter

\* handleResponse ends; unless it threw something other than an AbortError,
\* the job is pushed and runCrLoop called (part_000:232-245).  Another error
\* is rethrown and caught by handle (part_000:323-327).
HandleResponse ==
  /\ h.pc = "respond"
  /\ \E e \in ResponseEnds :
       IF e = "error"
       THEN /\ h' = [Caught(h) EXCEPT !.ended = e]
            /\ ticking' = ticking \ {h.msg}
            /\ UNCHANGED <<crQueue, crIsRunning, currentCr, loops, nextCtrl,
                           enqLog, startLog>>
       ELSE /\ h' = [Returned(h) EXCEPT !.ended = e]
            /\ enqLog' = Append(enqLog, h.msg)
            /\ RunCrLoop(Append(crQueue, h.msg))
            /\ UNCHANGED ticking
  /\ UNCHANGED <<aborted, nextMsg, outcome, notified, abortSeen>>
  /\ UNCHANGED pipeVars
  /\ UNCHANGED parseVars
  /\ UNCHANGED filter

\* ------------------------------------------------- eventLoop and main

\* events.retrieve answers BAD_EVENT_QUEUE_ID while no message is being
\* handled: eventLoop returns (part_001:304-307) and main sleeps before it
\* calls eventLoop again (part_002:30-37).  h.pc = "down" from here to the
\* restart; the fields of the MsgHandler are not touched.
EventLoopEnds ==
  /\ h.pc = "idle"
  /\ h' = [h EXCEPT !.pc = "down"]
  /\ UNCHANGED <<crQueue, crIsRunning, currentCr, aborted, loops, nextCtrl, nextMsg,
                 enqLog, startLog, outcome, notified, abortSeen, ticking>>
  /\ UNCHANGED pipeVars
  /\ UNCHANGED parseVars
  /\ UNCHANGED filter

\* Mutant of Restart: main creates a new MsgHandler for every eventLoop call.
RestartWithNewHandler ==
  /\ h.pc = "down"
  /\ h' = [h EXCEPT !.pc = "idle"]
  /\ crQueue' = <<>>
  /\ crIsRunning' = FALSE
  /\ currentCr' = NoCr
  /\ UNCHANGED <<aborted, loops, nextCtrl, nextMsg,
                 enqLog, startLog, outcome, notified, abortSeen, ticking>>
  /\ UNCHANGED pipeVars
  /\ UNCHANGED parseVars
  /\ UNCHANGED filter

\* main calls eventLoop again with the handler it created before its loop
\* (part_002:28-31); eventLoop registers a new queue and retrieves from it
\* (part_001:278-299).  A register that fails throws to main, which sleeps
\* and calls again: the state is the same as before the call.  Messages
\* sent while no queue was registered are not delivered and have no id here.
Restart ==
  /\ h.pc = "down"
  /\ h' = [h EXCEPT !.pc = "idle"]
  /\ UNCHANGED <<crQueue, crIsRunning, currentCr, aborted, loops, nextCtrl, nextMsg,
                 enqLog, startLog, outcome, notified, abortSeen, ticking>>
  /\ UNCHANGED pipeVars
  /\ UNCHANGED parseVars
  /\ UNCHANGED filter

\* ------------------------------------------------------ pipeNjdsonToFile

\* A response body is a string, modelled as a sequence of characters: "n" is
\* the newline, "r" the carriage return.  A record is one line of two
\* characters, a flag the predicate looks at and the text of its pgn field.
Flags == {"x", "y"}
Pgns == {"p", "q"}
RecordLines == {<<f, g>> : f \in Flags, g \in Pgns}

\* JSON.parse(line) throws on a line that is no complete record.
ParseThrows(line) == line \notin RecordLines

\* filterMap(JSON.parse(line)): the record's pgn when the predicate accepts
\* the record, <<>> for undefined (part_000:282-284).
FilterMap(line) == IF line[1] = "x" THEN <<line[2]>> ELSE <<>>

\* buf.split(/\r?\n/) from position i on, cur being the part begun.
RECURSIVE SplitFrom(_, _, _)
SplitFrom(s, i, cur) ==
  IF i > Len(s) THEN <<cur>>
  ELSE IF s[i] = "n" THEN <<cur>> \o SplitFrom(s, i + 1, <<>>)
  ELSE IF s[i] = "r" /\ i < Len(s) /\ s[i + 1] = "n" THEN <<cur>> \o SplitFrom(s, i + 2, <<>>)
  ELSE SplitFrom(s, i + 1, Append(cur, s[i]))

Split(s) == SplitFrom(s, 1, <<>>)

\* Array.prototype.filter(Boolean) on strings: the empty string is dropped.
RECURSIVE FilterBoolean(_)
FilterBoolean(parts) ==
  IF parts = <<>> THEN <<>>
  ELSE IF Head(parts) = <<>> THEN FilterBoolean(Tail(parts))
       ELSE <<Head(parts)>> \o FilterBoolean(Tail(parts))

\* Array.prototype.map with FilterMap.
MapFilterMap(lines) == [i \in 1..Len(lines) |-> FilterMap(lines[i])]

\* The pgns one chunk makes pipeNjdsonToFile write (part_001:212-219):
\* the complete lines, without the empty ones, parsed and filtered.
ChunkPgns(parts) ==
  FilterBoolean(MapFilterMap(FilterBoolean(SubSeq(parts, 1, Len(parts) - 1))))

\* The test that ends the for await loop early, count >= max; a comparison
\* with undefined is false (part_001:220).
ReachedMax(c, m) == m # NoMax /\ c >= m

\* One iteration of the for await loop: a chunk of the body arrives
\* (part_001:208-223).
PipeChunk ==
  /\ pipePc = "reading"
  /\ body # <<>>
  /\ \E n \in 1..Len(body) :
       LET parts == Split(buf \o SubSeq(body, 1, n))
           lines == FilterBoolean(SubSeq(parts, 1, Len(parts) - 1))
           pgns == ChunkPgns(parts)
       IN /\ body' = SubSeq(body, n + 1, Len(body))
          /\ buf' = parts[Len(parts)]
          /\ IF \E i \in 1..Len(lines) : ParseThrows(lines[i])
             THEN /\ pipePc' = "threw"
                  /\ UNCHANGED <<count, written>>
             ELSE /\ count' = count + Len(pgns)
                  /\ written' = written \o pgns
                  /\ pipePc' = IF ReachedMax(count + Len(pgns), max)
                               THEN "stopped" ELSE "reading"
  /\ UNCHANGED <<max, records>>
  /\ UNCHANGED schedVars
  /\ UNCHANGED parseVars
  /\ UNCHANGED filter

\* The body has ended: what is left in buf is parsed and filtered once more
\* (part_001:225-228).
PipeEnd ==
  /\ pipePc = "reading"
  /\ body = <<>>
  /\ IF Len(buf) > 0
     THEN IF ParseThrows(buf)
          THEN /\ pipePc' = "threw"
               /\ UNCHANGED written
          ELSE /\ pipePc' = "done"
               /\ written' = IF FilterMap(buf) # <<>> THEN Append(written, FilterMap(buf))
                             ELSE written
     ELSE /\ pipePc' = "done"
          /\ UNCHANGED written
  /\ UNCHANGED <<body, buf, count, max, records>>
  /\ UNCHANGED schedVars
  /\ UNCHANGED parseVars
  /\ UNCHANGED filter

\* The body the service sends for these records: each record followed by the
\* separator, the last one only if terminated.
RECURSIVE Encode(_, _, _)
Encode(recs, sep, terminated) ==
  IF recs = <<>> THEN <<>>
  ELSE IF Len(recs) = 1 THEN Head(recs) \o (IF terminated THEN sep ELSE <<>>)
       ELSE Head(recs) \o sep \o Encode(Tail(recs), sep, terminated)

\* pipeNjdsonToFile(filterMap, max) is called with a response
\* (part_001:200-207); nothing else goes on.
InitPipe ==
  /\ SchedInit
  /\ ParseOff
  /\ filter = NoFilter
  /\ records \in UNION {[1..n -> RecordLines] : n \in 0..MaxRecords}
  /\ \E sep \in {<<"n">>, <<"r", "n">>}, terminated \in BOOLEAN :
       body = Encode(records, sep, terminated)
  /\ max \in {NoMax} \cup 0..MaxN
  /\ buf = <<>>
  /\ count = 0
  /\ written = <<>>
  /\ pipePc = "reading"

SpecPipe == InitPipe /\ [][PipeChunk \/ PipeEnd]_vars

\* ----------------------------------------------------------------- parseCmd

\* A string is a sequence of one-character strings.
LowerSeq == <<"a", "b", "c", "d", "e", "f", "g", "h", "i", "j", "k", "l", "m", "n", "o", "p", "q", "r", "s", "t", "u", "v", "w", "x", "y", "z">>
UpperSeq == <<"A", "B", "C", "D", "E", "F", "G", "H", "I", "J", "K", "L", "M", "N", "O", "P", "Q", "R", "S", "T", "U", "V", "W", "X", "Y", "Z">>
DigitSeq == <<"0", "1", "2", "3", "4", "5", "6", "7", "8", "9">>

Digits == Range(DigitSeq)

\* [a-zA-Z0-9]
Alnum == Range(LowerSeq) \cup Range(UpperSeq) \cup Digits

\* What \s matches, and what . does not match, of the characters used here.
Whitespace == {" ", "\t", "\n", "\r"}
LineTerminators == {"\n", "\r"}

\* String.prototype.toLowerCase
ToLowerChar(c) ==
  IF c \in Range(UpperSeq) THEN LowerSeq[CHOOSE i \in 1..Len(UpperSeq) : UpperSeq[i] = c] ELSE c

ToLowerCase(s) == [i \in 1..Len(s) |-> ToLowerChar(s[i])]

StartsWith(s, p) == Len(s) >= Len(p) /\ SubSeq(s, 1, Len(p)) = p

\* s.substring(n)
Drop(s, n) == SubSeq(s, n + 1, Len(s))

\* s.substring(0, n)
Take(s, n) == SubSeq(s, 1, IF n <= Len(s) THEN n ELSE Len(s))

\* p occurs in s at index i (1-based).
OccursAt(s, p, i) == i >= 1 /\ i + Len(p) - 1 <= Len(s) /\ SubSeq(s, i, i + Len(p) - 1) = p

SetMin(S) == CHOOSE x \in S : \A y \in S : x <= y

\* s.replace(p, '') for a string p: the first occurrence of p is removed.
RemoveFirst(s, p) ==
  LET at == {i \in 1..Len(s) : OccursAt(s, p, i)}
  IN IF at = {} THEN s
     ELSE SubSeq(s, 1, SetMin(at) - 1) \o Drop(s, SetMin(at) + Len(p) - 1)

\* The indices at which a closing ** can end the match of @\*\*.+?\*\* that
\* starts at i: at least one character, none a line terminator, in between.
MentionCloses(s, i) ==
  {j \in (i + 4)..(Len(s) - 1) :
     /\ s[j] = "*"
     /\ s[j + 1] = "*"
     /\ \A k \in (i + 3)..(j - 1) : s[k] \notin LineTerminators}

MentionOpens(s) ==
  {i \in 1..Len(s) : OccursAt(s, <<"@", "*", "*">>, i) /\ MentionCloses(s, i) # {}}

\* .replace(/@\*\*.+?\*\*/, '') (parser.ts:179): the leftmost, shortest match.
StripMention(s) ==
  IF MentionOpens(s) = {} THEN s
  ELSE LET i == SetMin(MentionOpens(s))
           j == SetMin(MentionCloses(s, i))
       IN SubSeq(s, 1, i - 1) \o Drop(s, j + 1)

\* .replace(/^@cr/, '') (parser.ts:180)
StripAtCr(s) == IF StartsWith(s, <<"@", "c", "r">>) THEN Drop(s, 3) ELSE s

RECURSIVE TrimStart(_)
TrimStart(s) == IF s # <<>> /\ Head(s) \in Whitespace THEN TrimStart(Tail(s)) ELSE s

RECURSIVE TrimEnd(_)
TrimEnd(s) ==
  IF s # <<>> /\ s[Len(s)] \in Whitespace THEN TrimEnd(SubSeq(s, 1, Len(s) - 1)) ELSE s

\* String.prototype.trim
Trim(s) == TrimEnd(TrimStart(s))

\* s.split(/\s+/): the pieces between the maximal runs of whitespace; the
\* empty string gives one empty piece.
RECURSIVE SplitWs(_)
SplitWs(s) ==
  LET ws == {i \in 1..Len(s) : s[i] \in Whitespace}
  IN IF ws = {} THEN <<s>>
     ELSE LET i == SetMin(ws)
              after == {j \in i..Len(s) : s[j] \notin Whitespace}
          IN <<SubSeq(s, 1, i - 1)>>
               \o SplitWs(IF after = {} THEN <<>> ELSE Drop(s, SetMin(after) - 1))

\* parts (parser.ts:178-183)
Parts(c) ==
  LET pieces == SplitWs(Trim(StripAtCr(StripMention(c))))
  IN [i \in 1..Len(pieces) |-> Trim(pieces[i])]

\* ---- numbers

\* /^\d+$/
AllDigits(s) == s # <<>> /\ \A i \in 1..Len(s) : s[i] \in Digits

RECURSIVE StripZeros(_)
StripZeros(ds) == IF Len(ds) > 1 /\ Head(ds) = "0" THEN StripZeros(Tail(ds)) ELSE ds

\* parseInt(s, 10) for s of digits only: a number is kept as its decimal
\* digits without leading zeros, so that it has no bound.
ParseInt(ds) == StripZeros(ds)

DigitVal(c) == (CHOOSE i \in 1..Len(DigitSeq) : DigitSeq[i] = c) - 1

RECURSIVE LexLess(_, _)
LexLess(a, b) ==
  IF a = <<>> THEN FALSE
  ELSE IF Head(a) # Head(b) THEN DigitVal(Head(a)) < DigitVal(Head(b))
       ELSE LexLess(Tail(a), Tail(b))

\* a < b for two numbers
NumLess(a, b) == IF Len(a) # Len(b) THEN Len(a) < Len(b) ELSE LexLess(a, b)

\* undefined, for a field that holds a string or a number
Undef == <<>>

\* NaN
NaN == [nan |-> TRUE, neg |-> FALSE, digits |-> <<>>]

RECURSIVE DigitPrefix(_)
DigitPrefix(s) ==
  IF s # <<>> /\ Head(s) \in Digits THEN <<Head(s)>> \o DigitPrefix(Tail(s)) ELSE <<>>

\* parseInt(s, 10) for any string: an optional sign and the digits that
\* follow it, NaN when there is none.
ParseIntAny(s) ==
  LET signed == s # <<>> /\ Head(s) \in {"+", "-"}
      ds == DigitPrefix(IF signed THEN Tail(s) ELSE s)
  IN IF ds = <<>> THEN NaN
     ELSE [nan |-> FALSE, neg |-> signed /\ Head(s) = "-", digits |-> StripZeros(ds)]

\* ---- times

\* The values parseTime returns (part_001:180-186): a count of milliseconds
\* ("ms"), Date.parse of a year ("year"), now minus a number of days ("ago"),
\* or undefined.
NoTime == [kind |-> "undefined", n |-> <<>>]

\* /^(\d{4})-(\d{1,2})-(\d{1,2})$/
IsIsoDate(s) ==
  /\ Len(s) >= 8
  /\ AllDigits(SubSeq(s, 1, 4))
  /\ s[5] = "-"
  /\ \E k \in 7..8 :
       /\ k < Len(s)
       /\ s[k] = "-"
       /\ AllDigits(SubSeq(s, 6, k - 1))
       /\ AllDigits(Drop(s, k))
       /\ Len(s) - k <= 2

\* The digits of s when s matches /^(\d+)d(ays?)?$/, else the empty string.
AgoDays(s) ==
  LET ds == DigitPrefix(s)
  IN IF ds # <<>> /\ Drop(s, Len(ds)) \in {<<"d">>, <<"d", "a", "y">>, <<"d", "a", "y", "s">>}
     THEN ds ELSE <<>>

\* parseTime (part_001:180-186); Date.parse is given match[1], the year.
ParseTime(s) ==
  IF AllDigits(s) THEN [kind |-> "ms", n |-> ParseInt(s)]
  ELSE IF IsIsoDate(s) THEN [kind |-> "year", n |-> SubSeq(s, 1, 4)]
  ELSE IF AgoDays(s) # <<>> THEN [kind |-> "ago", n |-> ParseInt(AgoDays(s))]
  ELSE NoTime

\* Date.parse('2010-01-01'), Date.parse('2100-01-01') and the largest time
\* value of a Date, in milliseconds.
Date2010 == <<"1", "2", "6", "2", "3", "0", "4", "0", "0", "0", "0", "0", "0">>
Date2100 == <<"4", "1", "0", "2", "4", "4", "4", "8", "0", "0", "0", "0", "0">>
MaxTimeValue == <<"8", "6", "4", "0", "0", "0", "0", "0", "0", "0", "0", "0", "0", "0", "0", "0">>

\* The clock: the whole days from 2010-01-01 to now, and 100,000,000 (the
\* days in MaxTimeValue) plus the whole days from 1970-01-01 to now.
DaysSince2010 == <<"6", "1", "5", "3">>
DaysToTimeLimit == <<"1", "0", "0", "0", "2", "0", "7", "6", "3">>

\* !time || isNaN(time) (parser.ts:234): undefined or 0, which Date.parse
\* gives for the year 1970.
TimeFalsy(t) ==
  \/ t.kind = "undefined"
  \/ t.kind = "ms" /\ t.n = <<"0">>
  \/ t.kind = "year" /\ t.n = <<"1", "9", "7", "0">>

\* time > Date.parse('2100-01-01') (parser.ts:235)
TooFarInFuture(t) ==
  \/ t.kind = "ms" /\ NumLess(Date2100, t.n)
  \/ t.kind = "year" /\ NumLess(<<"2", "1", "0", "0">>, t.n)

\* Mutant of TooFarInPast: a time given as a number of days ago is not
\* compared.
TooFarInPastNoAgo(t) ==
  \/ t.kind = "ms" /\ NumLess(t.n, Date2010)
  \/ t.kind = "year" /\ NumLess(t.n, <<"2", "0", "1", "0">>)

\* time < Date.parse('2010-01-01') (parser.ts:236)
TooFarInPast(t) ==
  \/ t.kind = "ms" /\ NumLess(t.n, Date2010)
  \/ t.kind = "year" /\ NumLess(t.n, <<"2", "0", "1", "0">>)
  \/ t.kind = "ago" /\ NumLess(DaysSince2010, t.n)

\* formatTimestamp (part_001:188) throws: toISOString throws a RangeError for
\* a Date whose time value is out of range.
FormatTimestampThrows(t) ==
  \/ t.kind = "ms" /\ NumLess(MaxTimeValue, t.n)
  \/ t.kind = "ago" /\ NumLess(DaysToTimeLimit, t.n)

\* ---- commands

Help == [type |-> "help"]
Status == [type |-> "status"]
Abort(all, index) == [type |-> "abort", all |-> all, index |-> index]
Invalid(reason) == [type |-> "invalid", reason |-> reason]
Ids(user, ids) == [type |-> "ids", user |-> user, ids |-> ids]

\* parseCmd does not return: an exception leaves it.
Threw(error) == [type |-> "throw", error |-> error]

\* time_control undefined
NoTc == [minutes |-> Undef, inc |-> Undef]

\* { type: 'recent', user } (parser.ts:207)
RecentOf(user) ==
  [type |-> "recent", user |-> user, perfType |-> Undef, time_control |-> NoTc,
   count |-> Undef, with_casual |-> FALSE, before_epoch |-> NoTime,
   after_epoch |-> NoTime, max_advantage |-> Undef, min_moves |-> Undef,
   max_moves |-> Undef]

\* { type: 'tournament', user } (parser.ts:250)
TournamentOf(user) ==
  [type |-> "tournament", user |-> user, tournament_type |-> Undef, id |-> Undef,
   max_advantage |-> Undef, min_moves |-> Undef, max_moves |-> Undef]

KwRecent == <<"r", "e", "c", "e", "n", "t">>
KwTournament == <<"t", "o", "u", "r", "n", "a", "m", "e", "n", "t">>
KwSwiss == <<"s", "w", "i", "s", "s">>
KwAdvantage == <<"a", "d", "v", "a", "n", "t", "a", "g", "e", "<">>
KwMoves == <<"m", "o", "v", "e", "s">>
KwTime == <<"t", "i", "m", "e">>

\* The perf types of recent-mode (parser.ts:211).
PerfTypes == {<<"b", "u", "l", "l", "e", "t">>, <<"b", "l", "i", "t", "z">>, <<"r", "a", "p", "i", "d">>, <<"c", "l", "a", "s", "s", "i", "c", "a", "l">>, <<"c", "h", "e", "s", "s", "9", "6", "0">>}

\* /^[a-zA-Z0-9_-]+$/ (parser.ts:203)
UserOk(user) == user # <<>> /\ \A i \in 1..Len(user) : user[i] \in Alnum \cup {"_", "-"}

\* /^(\d+)\+(\d+)$/ (parser.ts:216): where the + is, 0 when there is no match.
TimeControlPlus(arg) ==
  LET at == {k \in 2..(Len(arg) - 1) :
               /\ arg[k] = "+"
               /\ AllDigits(SubSeq(arg, 1, k - 1))
               /\ AllDigits(Drop(arg, k))}
  IN IF at = {} THEN 0 ELSE SetMin(at)

\* /^advantage<(\d+)$/ (parser.ts:226, 259)
IsAdvantage(arg) == StartsWith(arg, KwAdvantage) /\ AllDigits(Drop(arg, Len(KwAdvantage)))

\* /^moves(<|>)(\d+)$/ (parser.ts:227, 260)
IsMoves(arg) ==
  /\ StartsWith(arg, KwMoves)
  /\ Len(arg) > Len(KwMoves)
  /\ arg[Len(KwMoves) + 1] \in {"<", ">"}
  /\ AllDigits(Drop(arg, Len(KwMoves) + 1))

\* /^time(<|>)(.+)$/ (parser.ts:231)
IsTime(arg) ==
  /\ StartsWith(arg, KwTime)
  /\ Len(arg) > Len(KwTime) + 1
  /\ arg[Len(KwTime) + 1] \in {"<", ">"}
  /\ \A i \in (Len(KwTime) + 2)..Len(arg) : arg[i] \notin LineTerminators

\* The moves branch (parser.ts:228-230, 261-263).
WithMoves(cmd, arg) ==
  IF arg[Len(KwMoves) + 1] = "<"
  THEN [cmd EXCEPT !.max_moves = ParseInt(Drop(arg, Len(KwMoves) + 1))]
  ELSE [cmd EXCEPT !.min_moves = ParseInt(Drop(arg, Len(KwMoves) + 1))]

\* The time branch (parser.ts:232-238): each of the two range messages
\* evaluates formatTimestamp(time).
WithTime(cmd, arg) ==
  LET op == arg[Len(KwTime) + 1]
      time == ParseTime(Drop(arg, Len(KwTime) + 1))
  IN IF TimeFalsy(time) THEN Invalid("Invalid date/time format")
     ELSE IF TooFarInFuture(time)
          THEN IF FormatTimestampThrows(time) THEN Threw("RangeError")
               ELSE Invalid("Date is too far in the future")
     ELSE IF TooFarInPast(time)
          THEN IF FormatTimestampThrows(time) THEN Threw("RangeError")
               ELSE Invalid("Date is too far in the past")
     ELSE IF op = "<" THEN [cmd EXCEPT !.before_epoch = time]
          ELSE [cmd EXCEPT !.after_epoch = time]

\* Mutant of RecentArg: a count is taken only before the perf type.
RecentArgCountBeforePerf(cmd, arg) ==
  IF arg = KwRecent THEN cmd
  ELSE IF arg \in PerfTypes
       THEN IF cmd.perfType = Undef THEN [cmd EXCEPT !.perfType = arg]
            ELSE IF cmd.perfType # arg THEN Invalid("Duplicate perf types")
                 ELSE cmd
  ELSE IF AllDigits(arg)
       THEN IF cmd.perfType = Undef THEN [cmd EXCEPT !.count = ParseInt(arg)] ELSE cmd
  ELSE IF IsAdvantage(arg)
       THEN [cmd EXCEPT !.max_advantage = ParseInt(Drop(arg, Len(KwAdvantage)))]
  ELSE IF IsMoves(arg) THEN WithMoves(cmd, arg)
  ELSE Invalid("Invalid parameter")

\* One iteration of recent-mode's loop, arg in lower case (parser.ts:210-239).
RecentArg(cmd, arg) ==
  IF arg = KwRecent THEN cmd
  ELSE IF arg \in PerfTypes
       THEN IF cmd.perfType = Undef THEN [cmd EXCEPT !.perfType = arg]
            ELSE IF cmd.perfType # arg THEN Invalid("Duplicate perf types")
                 ELSE cmd
  ELSE IF arg = <<"+", "c", "a", "s", "u", "a", "l">> THEN [cmd EXCEPT !.with_casual = TRUE]
  ELSE IF AllDigits(arg) THEN [cmd EXCEPT !.count = ParseInt(arg)]
  ELSE IF TimeControlPlus(arg) # 0
       THEN [cmd EXCEPT !.time_control =
               [minutes |-> ParseInt(SubSeq(arg, 1, TimeControlPlus(arg) - 1)),
                inc |-> ParseInt(Drop(arg, TimeControlPlus(arg)))]]
  ELSE IF IsAdvantage(arg)
       THEN [cmd EXCEPT !.max_advantage = ParseInt(Drop(arg, Len(KwAdvantage)))]
  ELSE IF IsMoves(arg) THEN WithMoves(cmd, arg)
  ELSE IF IsTime(arg) THEN WithTime(cmd, arg)
  ELSE Invalid("Invalid parameter")

\* The for loop of recent-mode: it ends at the first return or throw.
RECURSIVE RecentLoop(_, _)
RecentLoop(cmd, args) ==
  IF args = <<>> \/ cmd.type # "recent" THEN cmd
  ELSE RecentLoop(RecentArg(cmd, ToLowerCase(Head(args))), Tail(args))

\* determinePerfType(minutes, inc), of utils.js: the perf type of a time
\* control, kept as the time control it is derived from.
DeterminePerfType(minutes, inc) == <<"p", "e", "r", "f", " ", "o", "f", " ">> \o minutes \o <<"+">> \o inc

\* The largest count of recent-mode (parser.ts:247).
MaxCount == <<"1", "0", "0">>

\* recent-mode after its loop (parser.ts:241-248).
RecentEnd(cmd) ==
  LET withPerf == IF cmd.perfType = Undef
                  THEN [cmd EXCEPT !.perfType =
                          DeterminePerfType(cmd.time_control.minutes, cmd.time_control.inc)]
                  ELSE cmd
  IN IF cmd.type # "recent" THEN cmd
     ELSE IF cmd.perfType = Undef /\ cmd.time_control = NoTc
          THEN Invalid("No perf type specified")
     ELSE IF withPerf.count = Undef THEN Invalid("No game count specified")
     ELSE IF NumLess(MaxCount, withPerf.count) THEN Invalid("Max count has to be <100")
     ELSE withPerf

\* The tournament type of an arg matching
\* /^https:\/\/lichess.org\/(tournament|swiss)\/([a-zA-Z0-9]{8})$/
\* (parser.ts:255), the empty string when it does not match; the . of the
\* pattern matches any character.
TournamentUrlType(arg) ==
  LET types == {t \in {KwTournament, KwSwiss} :
                  /\ Len(arg) = 20 + Len(t) + 9
                  /\ StartsWith(arg, <<"h", "t", "t", "p", "s", ":", "/", "/", "l", "i", "c", "h", "e", "s", "s">>)
                  /\ arg[16] \notin LineTerminators
                  /\ SubSeq(arg, 17, 20) = <<"o", "r", "g", "/">>
                  /\ SubSeq(arg, 21, 20 + Len(t)) = t
                  /\ arg[21 + Len(t)] = "/"
                  /\ \A i \in (22 + Len(t))..Len(arg) : arg[i] \in Alnum}
  IN IF types = {} THEN <<>> ELSE CHOOSE t \in types : TRUE

\* One iteration of tournament-mode's loop (parser.ts:253-264).
TournamentArg(cmd, arg) ==
  IF ToLowerCase(arg) \in {KwTournament, KwSwiss} THEN cmd
  ELSE IF TournamentUrlType(arg) # <<>>
       THEN [cmd EXCEPT !.id = Drop(arg, Len(arg) - 8),
                        !.tournament_type = TournamentUrlType(arg)]
  ELSE IF IsAdvantage(ToLowerCase(arg))
       THEN [cmd EXCEPT !.max_advantage = ParseInt(Drop(arg, Len(KwAdvantage)))]
  ELSE IF IsMoves(ToLowerCase(arg)) THEN WithMoves(cmd, arg)
  ELSE Invalid("Invalid parameter")

RECURSIVE TournamentLoop(_, _)
TournamentLoop(cmd, args) ==
  IF args = <<>> \/ cmd.type # "tournament" THEN cmd
  ELSE TournamentLoop(TournamentArg(cmd, Head(args)), Tail(args))

\* tournament-mode after its loop (parser.ts:266-267).
TournamentEnd(cmd) ==
  IF cmd.type # "tournament" THEN cmd
  ELSE IF cmd.id = Undef THEN Invalid("Missing tournament URL")
  ELSE cmd

\* .replace(/(?:https?:\/\/)?lichess\.org\//, '') (parser.ts:271): the
\* leftmost match, with the scheme when it is there.
StripLichessUrl(s) ==
  LET host == <<"l", "i", "c", "h", "e", "s", "s", ".", "o", "r", "g", "/">>
      schemes == {<<"h", "t", "t", "p", "s", ":", "/", "/">>, <<"h", "t", "t", "p", ":", "/", "/">>}
      withScheme(i) == {p \in schemes : OccursAt(s, p \o host, i)}
      at == {i \in 1..Len(s) : withScheme(i) # {} \/ OccursAt(s, host, i)}
  IN IF at = {} THEN s
     ELSE LET i == SetMin(at)
              n == IF withScheme(i) # {}
                   THEN Len(CHOOSE p \in withScheme(i) : TRUE) + Len(host)
                   ELSE Len(host)
          IN SubSeq(s, 1, i - 1) \o Drop(s, i + n - 1)

\* The length of a game id (parser.ts:274, 278).
IdLen == 8

\* Mutant of GameId: the id is put in lower case.
GameIdLowerCase(arg) ==
  ToLowerCase(Take(Trim(RemoveFirst(StripLichessUrl(arg), <<"/", "b", "l", "a", "c", "k">>)),
                   IdLen))

\* The game id of an arg of ids-mode (parser.ts:269-275).
GameId(arg) ==
  Take(Trim(RemoveFirst(StripLichessUrl(arg), <<"/", "b", "l", "a", "c", "k">>)), IdLen)

\* /^[a-zA-Z0-9]{8}$/ (parser.ts:278)
GameIdOk(id) == Len(id) = IdLen /\ \A i \in 1..IdLen : id[i] \in Alnum

\* The largest number of game ids (parser.ts:281).
MaxGameIds == 100

\* ids-mode (parser.ts:269-284)
IdsMode(user, args) ==
  LET gameIds == [i \in 1..Len(args) |-> GameId(args[i])]
  IN IF \E i \in 1..Len(gameIds) : ~GameIdOk(gameIds[i]) THEN Invalid("Bad game ID")
     ELSE IF Len(gameIds) < 1 \/ Len(gameIds) > MaxGameIds
          THEN Invalid("Too few or many game IDs")
     ELSE Ids(user, gameIds)

\* parseCmd after the abort branch (parser.ts:196-285).
ParseRequest(user, args) ==
  IF user = <<>> THEN Invalid("Missing username.")
  ELSE IF ~UserOk(user) THEN Invalid("Bad username")
  ELSE IF args = <<>> THEN Invalid("Missing parameters")
  ELSE IF \E i \in 1..Len(args) : ToLowerCase(args[i]) = KwRecent
       THEN RecentEnd(RecentLoop(RecentOf(user), args))
  ELSE IF \E i \in 1..Len(args) : ToLowerCase(args[i]) \in {KwTournament, KwSwiss}
       THEN TournamentEnd(TournamentLoop(TournamentOf(user), args))
  ELSE IdsMode(user, args)

\* parseCmd (parser.ts:177-286): the Command it returns, or the error it
\* throws.  parseInt never throws, so the catch of the abort branch
\* (parser.ts:191-193) is not reached.
ParseCmdOf(c) ==
  LET parts == Parts(c)
  IN IF Len(parts) = 0 \/ parts[1] = <<"h", "e", "l", "p">> THEN Help
     ELSE IF parts[1] = <<"s", "t", "a", "t", "u", "s">> THEN Status
     ELSE IF parts[1] = <<"a", "b", "o", "r", "t">>
          THEN IF Len(parts) >= 2 /\ parts[2] = <<"a", "l", "l">> THEN Abort(TRUE, NaN)
               ELSE Abort(FALSE, ParseIntAny(IF Len(parts) >= 2 THEN parts[2]
                                             ELSE <<"u", "n", "d", "e", "f", "i", "n", "e", "d">>))
     ELSE ParseRequest(parts[1], Tail(parts))

\* handle calls parseCmd (part_000:314).
ParseCmd ==
  /\ parsed = NotParsed
  /\ parsed' = ParseCmdOf(content)
  /\ UNCHANGED <<content, formatted>>
  /\ UNCHANGED schedVars
  /\ UNCHANGED pipeVars
  /\ UNCHANGED filter

\* ---- formatCmd

\* tokens.join(' ')
RECURSIVE Join(_)
Join(tokens) ==
  IF tokens = <<>> THEN <<>>
  ELSE IF Len(tokens) = 1 THEN Head(tokens)
  ELSE Head(tokens) \o <<" ">> \o Join(Tail(tokens))

\* A number below 10000 of decimal digits.
RECURSIVE DigitsToInt(_)
DigitsToInt(ds) ==
  IF ds = <<>> THEN 0
  ELSE 10 * DigitsToInt(SubSeq(ds, 1, Len(ds) - 1)) + DigitVal(ds[Len(ds)])

\* `${n}` for a natural number n: its decimal digits.
RECURSIVE IntToDigits(_)
IntToDigits(n) ==
  IF n < 10 THEN <<DigitSeq[n + 1]>>
  ELSE IntToDigits(n \div 10) \o <<DigitSeq[(n % 10) + 1]>>

\* The clock of parseTime (part_001:185): the whole days from 1970-01-01 to
\* now, at the start of a day.
NowDays == 20763

\* `${time}` for a time parseTime returned and parseCmd accepted: the
\* milliseconds, those of 1 January of the year (Date.parse), or those of
\* now less the days; a day has 864 * 100000 milliseconds.
TimestampDigits(t) ==
  LET leaps(y) == (y \div 4) - (y \div 100) + (y \div 400)
      year == DigitsToInt(t.n)
      days == IF t.kind = "year"
              THEN 365 * (year - 1970) + leaps(year - 1) - leaps(1969)
              ELSE NowDays - DigitsToInt(t.n)
  IN IF t.kind = "ms" THEN t.n
     ELSE IF days = 0 THEN <<"0">>
     ELSE IntToDigits(days * 864) \o <<"0", "0", "0", "0", "0">>

\* formatCmd (parser.ts:288-310); 0 and undefined are falsy.
FormatCmdOf(cmd) ==
  LET truthy(n) == n # Undef /\ n # <<"0">>
      opt(n, key) == IF truthy(n) THEN <<" ">> \o key \o n ELSE <<>>
      time(t, key) == IF TimeFalsy(t) THEN <<>> ELSE <<" ">> \o key \o TimestampDigits(t)
      filters == opt(cmd.max_advantage, KwAdvantage)
                   \o opt(cmd.max_moves, KwMoves \o <<"<">>)
                   \o opt(cmd.min_moves, KwMoves \o <<">">>)
  IN IF cmd.type = "ids"
     THEN <<"/">> \o cmd.user \o <<" ", "i", "d", "s", " ">> \o Join(cmd.ids)
     ELSE IF cmd.type = "recent"
     THEN <<"/">> \o cmd.user \o <<" ">> \o KwRecent \o <<" ">> \o cmd.count
            \o <<" ">> \o cmd.perfType
            \o (IF cmd.with_casual THEN <<"+", "c", "a", "s", "u", "a", "l">> ELSE <<>>)
            \o time(cmd.after_epoch, KwTime \o <<">">>)
            \o time(cmd.before_epoch, KwTime \o <<"<">>)
            \o filters
     ELSE IF cmd.type = "tournament"
     THEN <<"/">> \o cmd.user \o <<" ">> \o KwTournament \o <<" ">> \o cmd.tournament_type
            \o <<" ">> \o cmd.id \o filters
     ELSE <<"U", "n", "e", "x", "p", "e", "c", "t", "e", "d", " ", "c", "o", "m", "m", "a", "n", "d">>

\* A ValidCommand parseCmd returned is formatted, and the text is given to
\* parseCmd again.
FormatCmd ==
  /\ parsed.type \in {"ids", "recent", "tournament"}
  /\ formatted = NotParsed
  /\ formatted' = parsed
  /\ content' = FormatCmdOf(parsed)
  /\ parsed' = NotParsed
  /\ UNCHANGED schedVars
  /\ UNCHANGED pipeVars
  /\ UNCHANGED filter

\* ---- the messages parsed

KwUser == <<"u", "s", "e", "r">>

\* The game ids parsed: 8 characters, each a lower-case letter, an upper-case
\* letter or a digit.
GameIds == [1..IdLen -> {"a", "B", "7"}]

\* Tokens after the user name.
ArgTokens ==
  {
   <<"r", "e", "c", "e", "n", "t">>,
   <<"0">>,
   <<"2", "0">>,
   <<"1", "0", "1">>,
   <<"b", "l", "i", "t", "z">>,
   <<"R", "a", "p", "i", "d">>,
   <<"5", "+", "0">>,
   <<"t", "i", "m", "e", "<", "2", "0", "2", "1", "-", "1", "1", "-", "0", "3">>,
   <<"t", "i", "m", "e", ">", "9", "9", "9", "9", "9", "9", "9", "9", "9",
     "9", "9", "9", "9", "9", "9", "9", "9", "9", "9", "9">>,
   <<"a", "B", "7", "a", "B", "7", "a", "B">>,
   <<"t", "o", "u", "r", "n", "a", "m", "e", "n", "t">>,
   <<"h", "t", "t", "p", "s", ":", "/", "/", "l", "i", "c", "h", "e", "s",
     "s", ".", "o", "r", "g", "/", "s", "w", "i", "s", "s", "/", "a", "B",
     "7", "a", "B", "7", "a", "B">>,
   <<"m", "o", "v", "e", "s", ">", "2", "0">>
  }

\* Messages that are not a request for a report, or have a bad user name.
OtherMessages ==
  {
   <<>>,
   <<" ", " ">>,
   <<"h", "e", "l", "p">>,
   <<"@", "*", "*", "c", "r", "*", "*", " ", "h", "e", "l", "p">>,
   <<"@", "c", "r", " ", "s", "t", "a", "t", "u", "s">>,
   <<"s", "t", "a", "t", "u", "s">>,
   <<"a", "b", "o", "r", "t">>,
   <<"a", "b", "o", "r", "t", " ", "a", "l", "l">>,
   <<"a", "b", "o", "r", "t", " ", "2">>,
   <<"a", "b", "o", "r", "t", " ", "f", "o", "o">>,
   <<"@", "*", "*", "c", "r", " ", "b", "o", "t", "*", "*", " ", "a", "b",
     "o", "r", "t", " ", "-", "1">>,
   <<"u", "s", "!", "e", "r", " ", "r", "e", "c", "e", "n", "t", " ", "2",
     "0", " ", "b", "l", "i", "t", "z">>,
   <<"@", "*", "*", "c", "r", "*", "*">>,
   <<"@", "*", "*", "c", "r", "*", "*", " ", "u", "s", "e", "r", " ", "l",
     "i", "c", "h", "e", "s", "s", ".", "o", "r", "g", "/", "a", "B", "7",
     "a", "B", "7", "a", "B", "/", "b", "l", "a", "c", "k">>
  }

\* The parameters of "user recent 20 blitz advantage<100 moves>20".
PermTokens ==
  <<KwRecent, <<"2", "0">>, <<"b", "l", "i", "t", "z">>,
    KwAdvantage \o <<"1", "0", "0">>, <<"m", "o", "v", "e", "s", ">", "2", "0">> >>

\* That message with its parameters in every order.
PermContents ==
  {Join(<<KwUser>> \o [i \in 1..Len(PermTokens) |-> PermTokens[p[i]]]) :
     p \in {q \in [1..Len(PermTokens) -> 1..Len(PermTokens)] :
              \A i, j \in 1..Len(PermTokens) : q[i] = q[j] => i = j}}

\* The perf types the help text names (part_000:71).
PerfKeywords ==
  {<<"b", "u", "l", "l", "e", "t">>,
   <<"b", "l", "i", "t", "z">>,
   <<"r", "a", "p", "i", "d">>,
   <<"c", "l", "a", "s", "s", "i", "c", "a", "l">>,
   <<"c", "h", "e", "s", "s", "9", "6", "0">>,
   <<"c", "o", "r", "r", "e", "s", "p", "o", "n", "d", "e", "n", "c", "e">>}

\* "user recent 20" with one or with two of them.
PerfContents ==
  {Join(<<KwUser, KwRecent, <<"2", "0">>, a>>) : a \in PerfKeywords}
    \cup {Join(<<KwUser, KwRecent, <<"2", "0">>, a, b>>) : a, b \in PerfKeywords}

\* "user recent 20 blitz" with a time before or after which to look: around
\* both limits, as milliseconds, as a date and as a number of days.
TimeContents ==
  {Join(<<KwUser, KwRecent, <<"2", "0">>, <<"b", "l", "i", "t", "z">>, KwTime \o op \o t>>) :
     op \in {<<"<">>, <<">">>},
     t \in {<<"0">>,
           <<"1", "2", "6", "2", "3", "0", "3", "9", "9", "9", "9", "9", "9">>,
           <<"1", "2", "6", "2", "3", "0", "4", "0", "0", "0", "0", "0", "0">>,
           <<"1", "6", "3", "8", "0", "0", "9", "6", "4", "0">>,
           <<"4", "1", "0", "2", "4", "4", "4", "8", "0", "0", "0", "0", "0">>,
           <<"4", "1", "0", "2", "4", "4", "4", "8", "0", "0", "0", "0", "1">>,
           <<"1", "9", "7", "0", "-", "0", "1", "-", "0", "1">>,
           <<"2", "0", "0", "9", "-", "1", "2", "-", "3", "1">>,
           <<"2", "0", "1", "0", "-", "0", "1", "-", "0", "1">>,
           <<"2", "1", "0", "0", "-", "0", "6", "-", "0", "1">>,
           <<"2", "1", "0", "1", "-", "0", "1", "-", "0", "1">>,
           <<"1", "d">>,
           <<"6", "1", "5", "3", "d">>,
           <<"6", "1", "5", "4", "d", "a", "y", "s">>}}

Contents ==
  {Join(<<KwUser>> \o args) : args \in UNION {[1..n -> ArgTokens] : n \in 0..MaxArgs}}
    \cup {Join(<<KwUser, id>>) : id \in GameIds}
    \cup PermContents
    \cup PerfContents
    \cup TimeContents
    \cup OtherMessages

\* A message arrives; nothing else goes on.
InitParse ==
  /\ SchedInit
  /\ PipeOff
  /\ content \in Contents
  /\ parsed = NotParsed
  /\ formatted = NotParsed
  /\ filter = NoFilter

SpecParse == InitParse /\ [][ParseCmd \/ FormatCmd]_vars

\* -------------------------------------------------------------- the filters

\* An optional number that is undefined.
Undefined == -1

\* !n for an optional number n: undefined and 0 are falsy.
Falsy(n) == n = Undefined \/ n = 0

\* Mutant of AdvantageOk: the provisional rating of the opponent is not
\* looked at.
AdvantageOkRatingsOnly(o, cmd) ==
  LET playerColor == IF o.players.white.user.id = ToLowerCase(cmd.user)
                     THEN "white" ELSE "black"
      player == o.players[playerColor]
      opponent == o.players[IF playerColor = "white" THEN "black" ELSE "white"]
  IN Falsy(cmd.max_advantage) \/ player.rating - opponent.rating < cmd.max_advantage

\* advantageOk (part_000:22-31)
AdvantageOk(o, cmd) ==
  LET playerColor == IF o.players.white.user.id = ToLowerCase(cmd.user)
                     THEN "white" ELSE "black"
      player == o.players[playerColor]
      opponent == o.players[IF playerColor = "white" THEN "black" ELSE "white"]
  IN IF Falsy(cmd.max_advantage) THEN TRUE
     ELSE IF opponent.provisional /\ cmd.max_advantage < 2000 THEN FALSE
     ELSE IF player.rating - opponent.rating < cmd.max_advantage THEN TRUE
     ELSE FALSE

\* movesOk (part_000:33-38): o.moves.split(' ') has one string more than
\* o.moves has spaces.
MovesOk(o, cmd) ==
  LET moves == Cardinality({i \in 1..Len(o.moves) : o.moves[i] = " "}) + 1
      min_moves == IF cmd.min_moves = Undefined THEN 0 ELSE cmd.min_moves
      max_moves == IF cmd.max_moves = Undefined THEN 10000 ELSE cmd.max_moves
  IN min_moves < moves /\ moves < max_moves

\* playerOk (part_000:40-43)
PlayerOk(o, cmd) ==
  LET user == ToLowerCase(cmd.user)
  IN o.players.white.user.id = user \/ o.players.black.user.id = user

\* tcOk (part_000:45-48): the TimeControl header of o.pgn is kept as its
\* two numbers.
TcOk(o, cmd) ==
  IF cmd.time_control.minutes = Undefined THEN TRUE
  ELSE o.pgn.TimeControl = <<cmd.time_control.minutes * 60, cmd.time_control.inc>>

\* handelRecent (part_000:271-286): the record reaches the data file when
\* the callback returns its pgn, and always when the response is piped as
\* it is.
HandelRecent ==
  /\ filter.kept = "none"
  /\ filter.cmd.type = "recent"
  /\ LET o == filter.o
         cmd == filter.cmd
     IN filter' =
          [filter EXCEPT !.kept =
             IF \/ ~Falsy(cmd.max_advantage)
                \/ ~Falsy(cmd.min_moves)
                \/ ~Falsy(cmd.max_moves)
                \/ cmd.time_control.minutes # Undefined
             THEN IF AdvantageOk(o, cmd) /\ MovesOk(o, cmd) /\ TcOk(o, cmd)
                  THEN "written" ELSE "dropped"
             ELSE "piped"]
  /\ UNCHANGED schedVars
  /\ UNCHANGED pipeVars
  /\ UNCHANGED parseVars

\* handleTournament (part_000:294-309)
HandleTournament ==
  /\ filter.kept = "none"
  /\ filter.cmd.type = "tournament"
  /\ LET o == filter.o
         cmd == filter.cmd
     IN filter' =
          [filter EXCEPT !.kept =
             IF \/ ~Falsy(cmd.max_advantage)
                \/ ~Falsy(cmd.min_moves)
                \/ ~Falsy(cmd.max_moves)
                \/ cmd.tournament_type = "swiss"
             THEN IF AdvantageOk(o, cmd) /\ MovesOk(o, cmd) /\ PlayerOk(o, cmd)
                  THEN "written" ELSE "dropped"
             ELSE "piped"]
  /\ UNCHANGED schedVars
  /\ UNCHANGED pipeVars
  /\ UNCHANGED parseVars

\* ---- the records and commands filtered

\* The records of the service: the user plays white, black, or not at all,
\* and the game has 0, 2 or 3 moves.
Games ==
  LET Players == [user : [id : {KwUser, <<"o", "p", "p">>}],
                  rating : {1000, 1100, 2600},
                  provisional : BOOLEAN]
  IN
  {o \in [players : [white : Players, black : Players],
          moves : {<<>>, <<"e", "4", " ", "e", "5">>,
                   <<"e", "4", " ", "e", "5", " ", "N", "f", "3">>},
          pgn : [TimeControl : {<<300, 0>>, <<180, 2>>}]] :
     /\ o.players.white.user.id = KwUser => o.players.black.user.id # KwUser
     /\ o.players.white.rating # 1100}

\* The commands of handelRecent and handleTournament, with the fields the
\* filters read.
FilterCommands ==
  {cmd \in [type : {"recent", "tournament"},
            user : {<<"U", "s", "e", "r">>},
            tournament_type : {"none", "tournament", "swiss"},
            max_advantage : {Undefined, 0, 100, 1500, 2000},
            min_moves : {Undefined, 0, 2},
            max_moves : {Undefined, 0, 3},
            time_control : {[minutes |-> Undefined, inc |-> Undefined],
                            [minutes |-> 5, inc |-> 0]}] :
     IF cmd.type = "recent" THEN cmd.tournament_type = "none"
     ELSE cmd.tournament_type # "none" /\ cmd.time_control.minutes = Undefined}

\* The service sends a record for a command.
InitFilter ==
  /\ SchedInit
  /\ PipeOff
  /\ ParseOff
  /\ filter \in [o : Games, cmd : FilterCommands, kept : {"none"}]

SpecFilter == InitFilter /\ [][HandelRecent \/ HandleTournament]_vars

\* ------------------------------------------------------------------ spec

Next ==
  \/ HandleInvalid
  \/ HandleHelp
  \/ HandleStatus
  \/ HandleAbortIndex
  \/ HandleAbortAll
  \/ HandleAbortAfterSleep
  \/ FetchBegin
  \/ FetchResponse
  \/ HandleResponse
  \/ \E l \in loops : \E r \in ExecResults : DoCREnds(l, r)
  \/ \E l \in loops : LoopNext(l)
  \/ EventLoopEnds
  \/ Restart

Spec == Init /\ [][Next]_vars

\* ---------------------------------------------------------------- claims

\* The runs whose analysis subprocess is executing.
ExecInFlight == {l \in loops : l.pc = "exec"}

\* A step of the handler that receives an abort command with this index.
ReceivesAbortIndex(k) ==
  /\ h.pc = "idle"
  /\ h'.msg = nextMsg
  /\ h'.cmd = AbortIdxCmd(k)

\* A step of the handler that receives "abort all".
ReceivesAbortAll ==
  /\ h.pc = "idle"
  /\ h'.msg = nextMsg
  /\ h'.cmd = AbortAllCmd

\* q without its k-th element (1-based).
RemoveAt(q, k) == SubSeq(q, 1, k - 1) \o SubSeq(q, k + 1, Len(q))

\* C1: in every reachable state at most one drain loop is active and at most
\* one job is executing the analysis subprocess.
C1_AtMostOneRunning ==
  /\ Cardinality(loops) <= 1
  /\ Cardinality(ExecInFlight) <= 1

\* C2: as long as no abort was issued, jobs are started in the order they were
\* enqueued, and every started job but the last one has ended its run.
C2_FifoWithoutAbort ==
  ~abortSeen =>
    /\ Len(startLog) <= Len(enqLog)
    /\ startLog = SubSeq(enqLog, 1, Len(startLog))
    /\ \A l \in loops : l.cr = startLog[Len(startLog)]

C2_Witness ==
  /\ ~abortSeen
  /\ Len(startLog) = 3
  /\ startLog = enqLog
  /\ loops # {}

\* C3: abort(k) with 1 <= k <= n pending jobs removes exactly the k-th pending
\* job (the one status shows as [k]) and keeps the others in order.
C3_AbortRemovesExactlyOne ==
  [][\A k \in 1..MaxIdx :
       (ReceivesAbortIndex(k) /\ k <= Len(crQueue)) => crQueue' = RemoveAt(crQueue, k)]_vars

\* C4: abort(0) leaves the pending list as it is, notifies no pending job and
\* triggers no cancellation handle but the current job's, which it does
\* trigger when there is a current job.
C4_AbortZeroFrame ==
  [][(h' # h /\ h'.cmd = AbortIdxCmd(0) /\ h.pc # "down" /\ h'.pc # "down") =>
       /\ crQueue' = crQueue
       /\ notified' = notified
       /\ aborted' \subseteq aborted \cup {currentCr.abortCtrl}
       /\ (h.pc = "idle" /\ currentCr # NoCr) => currentCr.abortCtrl \in aborted']_vars

C4_Witness ==
  /\ h.cmd = AbortIdxCmd(0)
  /\ h.pc = "abortSleep"
  /\ Len(crQueue) > 0
  /\ currentCr.abortCtrl \in aborted

\* C5: abort(All) issued while a job is running notifies every pending job,
\* empties the pending list and triggers the cancellation handle of the
\* running job; no job notified that way is started afterwards.
C5_AbortAllCancelsEverything ==
  [][(ReceivesAbortAll /\ ExecInFlight # {}) =>
       /\ crQueue' = <<>>
       /\ Range(crQueue) \subseteq notified'
       /\ \A l \in ExecInFlight : l.abortCtrl \in aborted'
       /\ notified' \cap Range(startLog') = {}]_vars

\* C6: a job that abort notified as aborted while it was pending is not in
\* the pending list any more and is never dequeued by a drain loop.
C6_NotifiedNeverRun ==
  notified \cap (Range(crQueue) \cup Range(startLog)) = {}

C6_Witness ==
  /\ h.cmd.type = "abort"
  /\ h.cmd.index >= 1
  /\ notified # {}

\* C7: when the first response is 429 and the retry would be answered 200, the
\* pipeline leaves the fetch loop after one notice and two requests, with the
\* second, successful response in hand.
C7_RetryAfterRateLimit ==
  (h.pc = "respond" /\ h.plan = <<RateLimited, Ok>>) =>
    /\ h.notices = 1
    /\ h.reqs = 2
    /\ h.res = Ok

\* C8: when the service answers 429 to the first request and to the retry, the
\* pipeline makes no third request and never gets to handle a response or to
\* enqueue a job.
C8_TwoRateLimitsAreTerminal ==
  h.plan = <<RateLimited, RateLimited>> =>
    /\ h.pc = "fetch"
    /\ h.reqs <= 2

\* C9: when the request is answered with a non-success status other than 429,
\* fetchAndDoCR reports the error and returns; that step changes neither the
\* pending list, the current job nor the draining flag, and the message never
\* becomes a job.
C9_FetchErrorCreatesNoJob ==
  [][/\ (h.pc = "fetch" /\ h' # h /\ h.plan[h.reqs] = ServerError) =>
          /\ h'.pc = "idle"
          /\ h'.err
          /\ h'.reply = "cross_mark"
          /\ UNCHANGED <<crQueue, currentCr, crIsRunning, loops, enqLog>>
     /\ h'.err => h'.msg \notin Range(enqLog')]_vars

C9_Witness ==
  /\ h.err
  /\ h.pc = "idle"
  /\ loops # {}
  /\ Len(crQueue) > 0

\* The pgns of the records the predicate accepts, in the order of the stream.
RECURSIVE AcceptedPgns(_)
AcceptedPgns(recs) ==
  IF recs = <<>> THEN <<>>
  ELSE (IF FilterMap(Head(recs)) # <<>> THEN <<FilterMap(Head(recs))>> ELSE <<>>)
       \o AcceptedPgns(Tail(recs))

Min(a, b) == IF a <= b THEN a ELSE b

\* C10: for every stream, every split of it into chunks and every max = N
\* (a count, N >= 1), when pipeNjdsonToFile ends it has written exactly the
\* first min(N, number of accepted records) accepted records, each of them
\* whole.
C10_WritesExactlyMin ==
  (pipePc \in {"done", "stopped"} /\ max >= 1) =>
    written = SubSeq(AcceptedPgns(records), 1, Min(max, Len(AcceptedPgns(records))))

\* C11: no enqueued job is dropped without a notification: every job that was
\* pushed is still pending, was dequeued by a drain loop (and so runs to one
\* of doCR's terminal reports), or was notified as aborted while pending.
C11_NoJobDropped ==
  \A m \in Range(enqLog) :
    \/ m \in Range(crQueue)
    \/ m \in Range(startLog)
    \/ m \in notified

\* C12: when the run of a job has failed (exec error, timeout, no report
\* section, or an exception while reporting), the drain loop's next step
\* starts the head of the pending list; with nothing pending it ends the
\* loop and leaves the scheduler able to start again.
C12_FailedRunLoopGoesOn ==
  [][\A l \in loops :
       (l.pc = "finally" /\ outcome[l.cr] \in RunFailures /\ l \notin loops') =>
          IF crQueue # <<>>
          THEN /\ startLog' = Append(startLog, Head(crQueue))
               /\ crQueue' = Tail(crQueue)
               /\ currentCr'.msg = Head(crQueue)
               /\ [cr |-> Head(crQueue), abortCtrl |-> nextCtrl, pc |-> "exec"] \in loops'
          ELSE /\ ~crIsRunning'
               /\ currentCr' = NoCr]_vars

C12_Witness ==
  /\ Len(startLog) >= 2
  /\ outcome[startLog[1]] = "reportThrew"
  /\ \E l \in loops : l.cr = startLog[2] /\ l.pc = "exec"

\* C13: the step that enqueues a job appends it to the tail of the pending
\* list; with the draining flag false it starts a drain loop and that job
\* becomes the running job, with the flag true it starts no loop and the job
\* waits behind the jobs pending before it.
C13_EnqueueStartsOrWaits ==
  [][enqLog' # enqLog =>
       LET job == enqLog'[Len(enqLog')]
       IN IF ~crIsRunning
          THEN /\ crIsRunning'
               /\ currentCr'.msg = job
               /\ \E l \in loops' \ loops : l.cr = job /\ l.pc = "exec"
          ELSE /\ loops' = loops
               /\ currentCr' = currentCr
               /\ crQueue' = Append(crQueue, job)]_vars

\* C14: a run does not hold the handler: the step that pushes a job and
\* starts the drain loop returns to the event loop, and whenever a subprocess
\* is running and the handler is between two messages, a status or an abort
\* command that arrives is handled at once; an abort in its grace period is
\* answered whether or not the run has ended.
C14_HandledWhileRunning ==
  /\ [][enqLog' # enqLog => h'.pc = "idle"]_vars
  /\ []((ExecInFlight # {} /\ h.pc = "idle" /\ nextMsg <= MaxMsgs) =>
          /\ ENABLED HandleStatus
          /\ ENABLED HandleAbortIndex
          /\ ENABLED HandleAbortAll)
  /\ []((ExecInFlight # {} /\ h.pc = "abortSleep") => ENABLED HandleAbortAfterSleep)

C14_Witness ==
  /\ h.cmd = StatusCmd
  /\ h.reply = "status"
  /\ h.pc = "idle"
  /\ \E l \in ExecInFlight : l.cr < h.msg /\ l.abortCtrl \notin aborted

\* The controller triggered by the abort being handled: the handler is
\* serial and currentCr is the run started last, so it is the latest created
\* of the triggered controllers.
AbortedCtrl == CHOOSE c \in aborted : \A d \in aborted : d <= c

\* The run of that controller has exited: doCR has returned and the drain
\* loop has left the job.
AbortedRunExited == ~\E l \in loops : l.abortCtrl = AbortedCtrl

\* C15: when the grace period of an abort of the running job is over, the
\* requester gets the success acknowledgement if the aborted run has exited
\* and the failure-to-abort report if it has not, whatever is pending.
C15_AbortAnswerAfterGrace ==
  [][(h.pc = "abortSleep" /\ h' # h) =>
       /\ h'.pc = "idle"
       /\ h'.reply = IF AbortedRunExited THEN "check" ELSE "didntAbort"]_vars

\* C16: a run whose controller was triggered while its subprocess was
\* executing ends with the aborted report, and a job reported as aborted is
\* never reported as completed or failed afterwards.
C16_TriggeredRunEndsAborted ==
  [][/\ \A l \in loops :
          (l.pc = "exec" /\ l.abortCtrl \in aborted /\ l \notin loops') =>
             outcome'[l.cr] = "aborted"
     /\ \A m \in Msgs : outcome[m] = "aborted" => outcome'[m] = "aborted"]_vars

C16_Witness ==
  \E l \in loops :
    /\ l.pc = "finally"
    /\ l.abortCtrl \in aborted
    /\ outcome[l.cr] = "aborted"

\* C17: status changes neither the pending list, the current job nor the
\* draining flag, and the job status shows as [k] is the job abort(k) acts
\* on: for k >= 1 the one pending job notified and removed, for k = 0 the
\* current job, whose controller is triggered.
C17_StatusIndexIsAbortIndex ==
  [][/\ (h.pc = "idle" /\ h'.msg = nextMsg /\ h'.cmd = StatusCmd) =>
          UNCHANGED <<crQueue, currentCr, crIsRunning>>
     /\ \A k \in 0..MaxIdx :
          (ReceivesAbortIndex(k) /\ k \in DOMAIN StatusShows(currentCr, crQueue)) =>
             LET shown == StatusShows(currentCr, crQueue)[k]
             IN IF k = 0
                THEN /\ shown = currentCr.msg
                     /\ aborted' = aborted \cup {currentCr.abortCtrl}
                ELSE /\ notified' = notified \cup {shown}
                     /\ Range(crQueue) \ Range(crQueue') = {shown}]_vars

\* C18: handling a message that parses to Invalid or to Help replies, makes
\* no request to the game service, pushes no job and leaves the pending list,
\* the current job, the draining flag and the drain loops as they are; the
\* message is never a job.
C18_InvalidAndHelpFrame ==
  [][/\ (h.pc = "idle" /\ h'.msg = nextMsg /\ h'.cmd \in {InvalidCmd, HelpCmd}) =>
          /\ h'.pc = "idle"
          /\ h'.reply = (IF h'.cmd = InvalidCmd THEN "invalid" ELSE "help")
          /\ h'.reqs = 0
          /\ UNCHANGED <<crQueue, currentCr, crIsRunning, loops, enqLog, startLog>>
     /\ h'.cmd \in {InvalidCmd, HelpCmd} =>
          h'.msg \notin Range(crQueue') \cup Range(enqLog')]_vars

C18_Witness ==
  /\ h.cmd = InvalidCmd
  /\ h.reply = "invalid"
  /\ Len(crQueue) > 0
  /\ currentCr # NoCr

\* The variants of Command (parser.ts:170-175).
CommandTypes == {"help", "invalid", "status", "abort", "ids", "recent", "tournament"}

\* C19: parseCmd is total: whatever the text, it returns a Command and does
\* not throw, and an Invalid command carries a reason.
C19_ParseCmdTotal ==
  parsed.type # "none" =>
    /\ parsed.type \in CommandTypes
    /\ parsed.type = "invalid" => parsed.reason # ""

\* The text is "user ", then 8 characters of [a-zA-Z0-9].
IsUserAndId(c) ==
  /\ Len(c) = Len(KwUser) + 1 + IdLen
  /\ StartsWith(c, KwUser \o <<" ">>)
  /\ \A i \in (Len(KwUser) + 2)..Len(c) : c[i] \in Alnum

\* C20: parsing "user " followed by an id of 8 alphanumeric characters gives
\* the Ids command with user "user" and the one id, as it was written.
C20_UserAndIdParsesToIds ==
  (parsed.type # "none" /\ IsUserAndId(content)) =>
    /\ parsed.type = "ids"
    /\ parsed.user = KwUser
    /\ parsed.ids = <<Drop(content, Len(KwUser) + 1)>>

C20_Witness ==
  /\ IsUserAndId(content)
  /\ parsed.type = "ids"
  /\ parsed.ids = <<<<"B", "7", "a", "a", "B", "7", "B", "a">>>>

\* The count tokens of a message: the all-digit tokens after the user name.
CountTokens(c) ==
  LET parts == Parts(c)
  IN {i \in 2..Len(parts) : AllDigits(parts[i])}

\* A recent command all of whose counts are outside 1..100.
IsRecentWithCountOutside(c) ==
  LET parts == Parts(c)
  IN /\ Len(parts) >= 2
     /\ UserOk(parts[1])
     /\ \E i \in 2..Len(parts) : ToLowerCase(parts[i]) = KwRecent
     /\ CountTokens(c) # {}
     /\ \A i \in CountTokens(c) :
          \/ StripZeros(parts[i]) = <<"0">>
          \/ NumLess(MaxCount, ParseInt(parts[i]))

\* C21: a recent command whose count is outside 1..100, 0 and the counts
\* above 100 included, parses to Invalid.
C21_CountOutsideRangeIsInvalid ==
  (parsed # NotParsed /\ IsRecentWithCountOutside(content)) => parsed.type = "invalid"

\* C22: the parameters of "user recent 20 blitz advantage<100 moves>20" in
\* any order give the same Recent command: user "user", perf type blitz,
\* count 20, max advantage 100, min moves 20.
C22_RecentOrderIndependent ==
  (parsed # NotParsed /\ content \in PermContents)
    => parsed = [RecentOf(KwUser) EXCEPT !.perfType = <<"b", "l", "i", "t", "z">>,
                                         !.count = <<"2", "0">>,
                                         !.max_advantage = <<"1", "0", "0">>,
                                         !.min_moves = <<"2", "0">>]

\* The parameters in the opposite order have been parsed.
C22_Witness ==
  /\ content = Join(<<KwUser>> \o [i \in 1..Len(PermTokens) |->
                                     PermTokens[Len(PermTokens) + 1 - i]])
  /\ parsed.type = "recent"
  /\ parsed.count = <<"2", "0">>

\* C24: parseCmd yields Help when the text left after the mention is
\* stripped is empty, and when its first token is "help".
C24_EmptyOrHelpIsHelp ==
  (/\ parsed # NotParsed
   /\ \/ Trim(StripAtCr(StripMention(content))) = <<>>
      \/ Parts(content)[1] = <<"h", "e", "l", "p">>)
    => parsed = Help

\* The message is an abort command.
IsAbort(c) == Parts(c)[1] = <<"a", "b", "o", "r", "t">>

\* C25: "abort all" yields Abort of all, "abort n" with a non-negative
\* integer n yields Abort of index n, and a missing index or one that is
\* not an integer yields Invalid; no Abort carries an index that is not an
\* integer or is negative.
C25_AbortIndexIsValidated ==
  LET parts == Parts(content)
  IN (parsed # NotParsed /\ IsAbort(content))
       => /\ (Len(parts) >= 2 /\ parts[2] = <<"a", "l", "l">>) => parsed = Abort(TRUE, NaN)
          /\ (Len(parts) >= 2 /\ AllDigits(parts[2]))
               => parsed = Abort(FALSE, [nan |-> FALSE, neg |-> FALSE,
                                         digits |-> StripZeros(parts[2])])
          /\ (Len(parts) < 2 \/ ParseIntAny(parts[IF Len(parts) < 2 THEN 1 ELSE 2]).nan)
               => parsed.type = "invalid" \/ parsed = Abort(TRUE, NaN)
          /\ (parsed.type = "abort" /\ ~parsed.all)
               => ~parsed.index.nan /\ ~parsed.index.neg

\* A command with its times in milliseconds.
InMilliseconds(cmd) ==
  LET ms(t) == IF t.kind = "undefined" THEN t ELSE [kind |-> "ms", n |-> TimestampDigits(t)]
  IN IF cmd.type = "recent"
     THEN [cmd EXCEPT !.before_epoch = ms(@), !.after_epoch = ms(@)]
     ELSE cmd

\* C23: for every ValidCommand c that parseCmd returns, parseCmd of
\* formatCmd(c) is equivalent to c.
C23_FormatParseRoundTrip ==
  (formatted # NotParsed /\ parsed # NotParsed)
    => InMilliseconds(parsed) = InMilliseconds(formatted)

\* The opponent of the user in a record.
Opponent(o) == IF o.players.white.user.id = KwUser THEN o.players.black ELSE o.players.white

\* The record reached the data file.
Kept == filter.kept \in {"written", "piped"}

UserIn(o) == IF o.players.white.user.id = KwUser THEN o.players.white ELSE o.players.black

\* C29: for a command with max advantage T, any T >= 0, every record that
\* reaches the data file has the user's rating less the opponent's below T,
\* and none with a provisional opponent reaches it when T < 2000.
C29_WrittenWithinAdvantage ==
  (/\ Kept
   /\ PlayerOk(filter.o, filter.cmd)
   /\ filter.cmd.max_advantage # Undefined)
    => /\ UserIn(filter.o).rating - Opponent(filter.o).rating < filter.cmd.max_advantage
       /\ filter.cmd.max_advantage < 2000 => ~Opponent(filter.o).provisional

\* The moves of a record: o.moves holds them with one space between two.
MoveCount(o) ==
  IF o.moves = <<>> THEN 0
  ELSE Cardinality({i \in 1..Len(o.moves) : o.moves[i] = " "}) + 1

\* C30: for a command with move bounds, any MIN and MAX >= 0, every record
\* that reaches the data file has more than MIN moves (0 when there is no
\* MIN) and fewer than MAX (10000 when there is no MAX).
C30_WrittenWithinMoveBounds ==
  (/\ Kept
   /\ filter.cmd.min_moves # Undefined \/ filter.cmd.max_moves # Undefined)
    => /\ MoveCount(filter.o) >
            (IF filter.cmd.min_moves = Undefined THEN 0 ELSE filter.cmd.min_moves)
       /\ MoveCount(filter.o) <
            (IF filter.cmd.max_moves = Undefined THEN 10000 ELSE filter.cmd.max_moves)

\* C27: the draining flag is false exactly when there is no current job, no
\* pending job and no active drain loop, and it is never false while an
\* analysis subprocess runs.
C27_FlagFalseIffIdle ==
  /\ ~crIsRunning <=> (currentCr = NoCr /\ crQueue = <<>> /\ loops = {})
  /\ ExecInFlight # {} => crIsRunning

\* C28: abort(k) with k >= 1 sends the aborted notification to exactly one
\* job, the pending job at position k - 1 counted from 0, and that job is
\* the one it removes from the pending list.
C28_NotifiedJobIsRemovedJob ==
  [][\A k \in 1..MaxIdx :
       (ReceivesAbortIndex(k) /\ k <= Len(crQueue)) =>
          /\ notified' \ notified = {crQueue[k]}
          /\ {m \in Range(crQueue) : m \notin Range(crQueue')} = notified' \ notified]_vars

\* C31: in recent-mode each of bullet, blitz, rapid, classical, chess960 and
\* correspondence is a perf type: "user recent 20 <keyword>" yields a Recent
\* command with that perfType, the same keyword twice is accepted and two
\* different ones yield Invalid.
C31_SixPerfTypes ==
  \A a, b \in PerfKeywords :
    /\ (parsed # NotParsed /\ content = Join(<<KwUser, KwRecent, <<"2", "0">>, a>>))
         => parsed = [RecentOf(KwUser) EXCEPT !.perfType = a, !.count = <<"2", "0">>]
    /\ (parsed # NotParsed /\ content = Join(<<KwUser, KwRecent, <<"2", "0">>, a, b>>))
         => IF a = b
            THEN parsed = [RecentOf(KwUser) EXCEPT !.perfType = a, !.count = <<"2", "0">>]
            ELSE parsed.type = "invalid"

\* A time of a Recent command is within 2010-01-01 and 2100-01-01, in
\* milliseconds.
EpochInRange(t) ==
  t.kind # "undefined" =>
    /\ ~NumLess(TimestampDigits(t), Date2010)
    /\ ~NumLess(Date2100, TimestampDigits(t))

\* C32: every Recent command parseCmd returns has a user matching
\* ^[a-zA-Z0-9_-]+$ and its before_epoch and after_epoch, when present,
\* within 2010-01-01 and 2100-01-01 in milliseconds.
C32_RecentWithinDataModel ==
  parsed.type = "recent" =>
    /\ UserOk(parsed.user)
    /\ EpochInRange(parsed.before_epoch)
    /\ EpochInRange(parsed.after_epoch)

\* A Recent command with the earliest number of days ago that is accepted.
C32_Witness ==
  /\ parsed.type = "recent"
  /\ parsed.before_epoch = [kind |-> "ago", n |-> DaysSince2010]
  /\ TimestampDigits(parsed.before_epoch) = Date2010

\* The number of pending entries and of drain loops that hold job m.
Copies(m) ==
  Cardinality({i \in 1..Len(crQueue) : crQueue[i] = m})
    + Cardinality({l \in loops : l.cr = m})

\* C33: when handleResponse ends with an AbortError (or returns after its own
\* early stop), fetchAndDoCR goes on as after a normal end: the message gets
\* no cross_mark, and the job is pushed exactly once (it is then pending or
\* taken by a drain loop); when handleResponse throws any other error no job
\* is pushed, no drain loop starts, and the message gets cross_mark.
C33_AbortSignalIsNormalEnd ==
  [][(h.pc = "respond" /\ h'.pc # "respond") =>
       IF h'.ended = "error"
       THEN /\ enqLog' = enqLog
            /\ crQueue' = crQueue
            /\ loops' = loops
            /\ h'.reply = "cross_mark"
       ELSE /\ h'.reply # "cross_mark"
            /\ h.msg \notin Range(enqLog)
            /\ enqLog' = Append(enqLog, h.msg)
            /\ Copies(h.msg) = 0
            /\ Copies(h.msg)' = 1]_vars

C33_Witness ==
  /\ h.ended = "abortError"
  /\ h.pc = "idle"
  /\ h.reply = "none"
  /\ h.msg \in Range(enqLog)
  /\ h.msg \in ticking

\* C34: every command handed to the handler gets a reply or a reaction on
\* its own message: when handle returns to the event loop, the message has
\* been replied to or reacted to, or it carries time_ticking (nothing but
\* the handling of a message and the run of its own job addresses it, so a
\* message left without either at that point never gets one).
C34_EveryCommandAnswered ==
  [][(h'.pc = "idle" /\ h' # h /\ h.pc # "down") =>
       (h'.reply # "none" \/ h'.msg \in ticking')]_vars

\* This step handles a message whose handler throws: handleAbort with its
\* TypeError, or fetchAndDoCR when handleResponse throws another error than
\* an AbortError.
HandlerThrows ==
  \/ /\ h.pc = "idle"
     /\ nextMsg' = nextMsg + 1
     /\ h'.cmd.type \in {"abort", "abortAll"}
     /\ AbortThrows(crQueue, currentCr, h'.cmd)
  \/ /\ h.pc = "respond"
     /\ h'.ended = "error"

\* C35: an exception raised while a message is handled ends in handle's
\* catch: the message gets cross_mark and handle returns to the event loop,
\* which can take the next message; messages are handled in the order of
\* their ids, each one once, whether or not a handler threw before.
C35_ExceptionEndsWithOneEvent ==
  /\ [][HandlerThrows => (h'.pc = "idle" /\ h'.reply = "cross_mark")]_vars
  /\ [][h'.msg # h.msg => (h.pc = "idle" /\ h'.msg = nextMsg /\ h.msg < nextMsg
                           /\ nextMsg' = nextMsg + 1)]_vars
  /\ []((h.pc = "idle" /\ h.reply = "cross_mark" /\ nextMsg <= MaxMsgs) =>
          (ENABLED HandleStatus /\ ENABLED FetchBegin /\ ENABLED HandleAbortAll))

\* Message 1 was an abort, which throws when nothing is pending or running;
\* message 2 is being handled.
C35_Witness ==
  /\ abortSeen
  /\ enqLog = <<>>
  /\ h.msg = 2
  /\ h.pc = "fetch"

\* C36: when eventLoop returns or throws, main calls it again after its
\* sleep with the same MsgHandler: neither the end of eventLoop nor the
\* restart changes the pending list, the current job, the flag, the drain
\* loops or what the handler holds; the restart is always possible, and the
\* drain loops go on while the event loop is down.
C36_RestartKeepsHandler ==
  /\ [][((h.pc = "down") # (h'.pc = "down")) =>
          /\ UNCHANGED <<crQueue, currentCr, crIsRunning, loops, aborted, nextCtrl,
                         outcome, ticking>>
          /\ h' = [h EXCEPT !.pc = IF h.pc = "down" THEN "idle" ELSE "down"]]_vars
  /\ [](h.pc = "down" =>
          /\ ENABLED Restart
          /\ \A l \in loops :
               IF l.pc = "exec"
               THEN ENABLED DoCREnds(l, "completed")
               ELSE ENABLED LoopNext(l))

C36_Witness ==
  /\ h.pc = "down"
  /\ Len(crQueue) = 2
  /\ currentCr # NoCr
  /\ \E l \in loops : l.pc = "finally"

\* C37: the drain loop creates an AbortController for every job it takes
\* (the c-th controller belongs to the c-th job taken, and to no other);
\* only handleAbort's step aborts a controller, and it aborts the one of
\* the job that is current at that step; a run ends as aborted only when
\* its own controller was aborted; no step of fetchAndDoCR (whose pipeline
\* has a controller of its own) aborts the controller of a run.
C37_FreshAbortControllerPerJob ==
  /\ [](/\ nextCtrl = Len(startLog) + 1
        /\ aborted \subseteq 1..Len(startLog)
        /\ \A l \in loops : l.abortCtrl \in 1..Len(startLog)
                             /\ startLog[l.abortCtrl] = l.cr
        /\ \A c, d \in 1..Len(startLog) : startLog[c] = startLog[d] => c = d
        /\ currentCr # NoCr => /\ currentCr.abortCtrl \in 1..Len(startLog)
                               /\ startLog[currentCr.abortCtrl] = currentCr.msg)
  /\ [][aborted' # aborted =>
          /\ h.pc = "idle"
          /\ TargetsCurrent(h'.cmd)
          /\ currentCr # NoCr
          /\ aborted' = aborted \cup {currentCr.abortCtrl}]_vars
  /\ [][\A m \in Msgs : (outcome'[m] = "aborted" /\ outcome[m] # "aborted") =>
          \E c \in aborted : startLog[c] = m]_vars
  /\ [][h.pc \in {"fetch", "respond"} => aborted' = aborted]_vars

\* Job 1 was aborted while it ran; the job taken after it completed.
C37_Witness ==
  /\ aborted = {1}
  /\ Len(startLog) = 2
  /\ outcome[startLog[1]] = "aborted"
  /\ outcome[startLog[2]] = "completed"

\* C38: the job handleStatus shows at [0] is a job whose run is not over (a
\* drain loop still holds it: doCR or the finally after it has not ended),
\* and a job whose analysis subprocess is executing is the job shown at [0].
C38_StatusShowsTheRunningJob ==
  /\ currentCr # NoCr => \E l \in loops : l.cr = currentCr.msg
  /\ \A l \in ExecInFlight :
       /\ 0 \in DOMAIN StatusShows(currentCr, crQueue)
       /\ StatusShows(currentCr, crQueue)[0] = l.cr

\* The scheduler is idle (no current job, nothing pending) or the index is
\* greater than the number of pending jobs: the abort command targets nothing.
TargetsNothing(cmd) ==
  IF cmd.type = "abort" /\ cmd.index > 0
  THEN cmd.index > Len(crQueue)
  ELSE currentCr = NoCr /\ crQueue = <<>>

\* C39: an abort command that targets nothing changes neither the pending
\* list nor the current job nor the flag, aborts no run, notifies no job, and
\* ends in handle's catch: cross_mark on the abort message, the handler back
\* in the event loop.
C39_AbortOfNothing ==
  [][((ReceivesAbortAll \/ \E k \in 0..MaxIdx : ReceivesAbortIndex(k))
        /\ TargetsNothing(h'.cmd)) =>
       /\ UNCHANGED <<crQueue, currentCr, crIsRunning, loops, aborted, notified,
                      ticking>>
       /\ h'.pc = "idle"
       /\ h'.reply = "cross_mark"]_vars

\* Two jobs were pushed, one is running and one pending; abort 2 ended with
\* cross_mark.
C39_Witness ==
  /\ h.cmd = AbortIdxCmd(2)
  /\ h.reply = "cross_mark"
  /\ Len(enqLog) = 2
  /\ Len(startLog) = 1
  /\ Len(crQueue) = 1
  /\ currentCr # NoCr

\* C40: the time_ticking reaction of an analysis command is removed in every
\* outcome.  The reaction is removed by the handler of the message itself,
\* by handleAbort for a pending job, and by the drain loop that holds the job;
\* so a message keeps the reaction for ever once it carries it while it is
\* neither being handled nor pending nor held by a drain loop, and the claim
\* says that no such state is reached.
C40_TickingIsRemoved ==
  \A m \in ticking :
    \/ h.msg = m /\ h.pc \in {"fetch", "respond"}
    \/ m \in Range(crQueue)
    \/ \E l \in loops : l.cr = m

====
